---- MODULE Spec2Model ----
(***************************************************************************)
(* Model of the multi-source aggregation engine: ConflictDataAggregator    *)
(* (lib/api/aggregator, revision with data-quality validation) and the    *)
(* severity utilities of lib/utils.                                        *)
(*                                                                         *)
(* Units.  Instants are integers counting minutes since the epoch; a day   *)
(* is 1440 minutes.  Coordinates are integers counting thousandths of a    *)
(* degree.  A falsy JavaScript string (undefined or '') is "", a falsy     *)
(* number (undefined or 0) is 0.                                           *)
(***************************************************************************)
EXTENDS Integers, Sequences, FiniteSets, TLC

VARIABLES now, cache, sourceStatus, isRefreshing, passes, callers,
          lastReturn, pin, pout

vars == <<now, cache, sourceStatus, isRefreshing, passes, callers,
          lastReturn, pin, pout>>

(***************************************************************************)
(* Bounds of the model.                                                    *)
(***************************************************************************)
MaxElapsed == 5

NCallers == 2

MaxErrors == 1

MaxLen == 2

MaxSorted == 3

MaxCount == 10

(***************************************************************************)
(* Program constants.                                                      *)
(***************************************************************************)
cacheTTL == 5

maxRetries == 3

MinutesPerDay == 24 * 60

NoTime == -1

BadTime == -2

\* the instant of construction: day 10, 12:00
Now0 == 10 * MinutesPerDay + 720

(***************************************************************************)
(* Strings: toLowerCase, trim and includes on the strings of the model.    *)
(***************************************************************************)
toLowerCase(s) ==
  CASE s = "Gaza Strip" -> "gaza strip"
    [] s = "Gaza" -> "gaza"
    [] s = "UK" -> "uk"
    [] s = "Syria" -> "syria"
    [] s = "Middle East" -> "middle east"
    [] s = "Battle" -> "battle"
    [] s = "Battles" -> "battles"
    [] s = "Armed clash" -> "armed clash"
    [] s = "Air strike" -> "air strike"
    [] s = "Bombing" -> "bombing"
    [] s = "Protest" -> "protest"
    [] s = "Rally" -> "rally"
    [] s = "Airstrike" -> "airstrike"
    [] s = "ACLED" -> "acled"
    [] s = "News" -> "news"
    [] s = "Twitter" -> "twitter"
    [] s = "Intelligence" -> "intelligence"
    [] s = "CrisisWatch" -> "crisiswatch"
    [] s = "Reuters" -> "reuters"
    [] s = "Violence against civilians" -> "violence against civilians"
    [] OTHER -> s

trim(s) ==
  CASE s = " Gaza " -> "Gaza"
    [] s = " " -> ""
    [] OTHER -> s

\* s.includes(kw) for the lower-cased event types and the ids of the model
includes(s, kw) ==
  <<s, kw>> \in {
    <<"bombing", "bombing">>, <<"airstrike", "airstrike">>,
    <<"battle", "battle">>, <<"battles", "battle">>,
    <<"armed clash", "armed clash">>, <<"armed clash", "clash">>,
    <<"violence against civilians", "violence against civilians">>,
    <<"acled_1", "acled_">>, <<"acled_2", "acled_">>,
    <<"news_1", "news_">>, <<"news_2", "news_">>,
    <<"twitter_1", "twitter_">>, <<"crisis_1", "crisis_">> }

(***************************************************************************)
(* lib/utils: calculateSeverity.                                           *)
(***************************************************************************)
\* mutant: 50 to 99 fatalities score less than 25 to 49
FatalityScoreDip(fatalities) ==
  IF fatalities >= 100 THEN 40
  ELSE IF fatalities >= 50 THEN 15
  ELSE IF fatalities >= 25 THEN 30
  ELSE IF fatalities >= 10 THEN 25
  ELSE IF fatalities >= 5 THEN 20
  ELSE IF fatalities >= 1 THEN 15
  ELSE 5

\* fatality-based scoring of calculateSeverity
FatalityScore(fatalities) ==
  IF fatalities >= 100 THEN 40
  ELSE IF fatalities >= 50 THEN 35
  ELSE IF fatalities >= 25 THEN 30
  ELSE IF fatalities >= 10 THEN 25
  ELSE IF fatalities >= 5 THEN 20
  ELSE IF fatalities >= 1 THEN 15
  ELSE 5

\* mutant: an event without a type gets no type points
EventTypeScoreNoFloor(eventType) ==
  IF eventType = "" THEN 0 ELSE 10

\* event type-based scoring of calculateSeverity
EventTypeScore(eventType) ==
  IF eventType = "" THEN 5
  ELSE LET typeStr == toLowerCase(eventType) IN
    IF includes(typeStr, "bombing") \/ includes(typeStr, "airstrike")
         \/ includes(typeStr, "explosion") THEN 30
    ELSE IF includes(typeStr, "battle") \/ includes(typeStr, "armed clash")
         \/ includes(typeStr, "clash") THEN 25
    ELSE IF includes(typeStr, "attack")
         \/ includes(typeStr, "violence against civilians") THEN 20
    ELSE IF includes(typeStr, "drone strike") \/ includes(typeStr, "missile") THEN 25
    ELSE IF includes(typeStr, "cyber attack") THEN 15
    ELSE 10

SourceScore(source) ==
  IF source = "ACLED" \/ source = "Intelligence" THEN 10
  ELSE IF source = "News" THEN 8
  ELSE IF source = "Twitter" THEN 5
  ELSE 0

\* hoursAgo <= 6 and hoursAgo <= 24, in minutes; an unparseable date gives NaN
RecencyScore(timestamp, clock) ==
  IF timestamp = NoTime \/ timestamp = BadTime THEN 0
  ELSE IF clock - timestamp <= 6 * 60 THEN 10
  ELSE IF clock - timestamp <= 24 * 60 THEN 5
  ELSE 0

JsOr(a, b, falsy) == IF a # falsy THEN a ELSE b

severityScore(event, clock) ==
  FatalityScore(event.fatalities)
  + EventTypeScore(JsOr(event.event_type, event.eventType, ""))
  + SourceScore(event.source)
  + (IF event.verified THEN 10 ELSE 0)
  + RecencyScore(JsOr(event.timestamp, event.date, NoTime), clock)

calculateSeverity(event, clock) ==
  LET score == severityScore(event, clock) IN
  IF score >= 75 THEN "critical"
  ELSE IF score >= 55 THEN "high"
  ELSE IF score >= 35 THEN "medium"
  ELSE "low"

(***************************************************************************)
(* Data-quality validation of one record (aggregator).                     *)
(***************************************************************************)
normalizeLocationName(location) ==
  LET lowerLocation == toLowerCase(location) IN
  CASE lowerLocation = "gaza strip" -> "Gaza"
    [] lowerLocation = "west bank" -> "Palestine"
    [] lowerLocation = "drc" -> "Democratic Republic of Congo"
    [] lowerLocation = "car" -> "Central African Republic"
    [] lowerLocation = "uae" -> "United Arab Emirates"
    [] lowerLocation = "usa" -> "United States"
    [] lowerLocation = "uk" -> "United Kingdom"
    [] OTHER -> location

normalizeEventType(eventType) ==
  LET lowerType == toLowerCase(eventType) IN
  CASE lowerType = "armed clash" -> "Battle"
    [] lowerType = "battles" -> "Battle"
    [] lowerType = "violence against civilians" -> "ViolenceAgainstCivilians"
    [] lowerType = "explosions/remote violence" -> "Bombing"
    [] lowerType = "suicide bomb" -> "Bombing"
    [] lowerType = "air strike" -> "Airstrike"
    [] lowerType = "drone strike" -> "DroneStrike"
    [] OTHER -> eventType

getLocationFromCoordinates(lat, lng) ==
  IF lat >= 35000 /\ lat <= 55000 /\ lng >= 20000 /\ lng <= 50000 THEN "Middle East"
  ELSE IF lat >= 45000 /\ lat <= 70000 /\ lng >= 20000 /\ lng <= 50000 THEN "Eastern Europe"
  ELSE IF lat >= -35000 /\ lat <= 35000 /\ lng >= -20000 /\ lng <= 55000 THEN "Africa"
  ELSE IF lat >= 10000 /\ lat <= 55000 /\ lng >= 60000 /\ lng <= 150000 THEN "Asia"
  ELSE IF lat >= -55000 /\ lat <= 35000 /\ lng >= -170000 /\ lng <= -30000 THEN "Americas"
  ELSE "Global"

validateCoordinates(event) ==
  LET lat == JsOr(event.coordinates.lat, event.latitude, 0)
      lng == JsOr(event.coordinates.lng, event.longitude, 0)
  IN IF lat < -90000 \/ lat > 90000 \/ lng < -180000 \/ lng > 180000
     THEN [lat |-> 0, lng |-> 0]
     ELSE [lat |-> lat, lng |-> lng]

\* mutant: the country field is preferred to the place name
rawLocationCountryFirst(event) ==
  JsOr(JsOr(event.country, event.location, ""), event.region, "")

\* event.location || event.country || event.region
rawLocation(event) ==
  JsOr(JsOr(event.location, event.country, ""), event.region, "")

\* mutant: a record without any place is filed under "Global"
validateAndNormalizeLocationGlobal(event) ==
  IF rawLocation(event) = ""
  THEN LET coords == validateCoordinates(event) IN
       getLocationFromCoordinates(coords.lat, coords.lng)
  ELSE normalizeLocationName(trim(rawLocation(event)))

validateAndNormalizeLocation(event) ==
  IF rawLocation(event) = ""
  THEN LET coords == validateCoordinates(event) IN
       IF coords.lat # 0 \/ coords.lng # 0
       THEN getLocationFromCoordinates(coords.lat, coords.lng)
       ELSE "INVALID"
  ELSE normalizeLocationName(trim(rawLocation(event)))

\* mutant: a timestamp in the future is kept
validateTimestampUnclamped(event, clock) ==
  LET timestamp == JsOr(event.timestamp, event.date, NoTime) IN
  IF timestamp = NoTime THEN clock
  ELSE IF timestamp = BadTime THEN clock
  ELSE timestamp

\* the ISO string of an instant is modelled by the instant
validateTimestamp(event, clock) ==
  LET timestamp == JsOr(event.timestamp, event.date, NoTime) IN
  IF timestamp = NoTime THEN clock
  ELSE IF timestamp = BadTime THEN clock
  ELSE IF timestamp > clock THEN clock
  ELSE timestamp

validateEventType(event) ==
  LET eventType == JsOr(event.eventType, event.event_type, "") IN
  IF eventType = "" THEN "INVALID" ELSE normalizeEventType(eventType)

validateSource(event) ==
  LET source == event.source IN
  IF source = ""
  THEN IF includes(event.id, "acled_") THEN "ACLED"
       ELSE IF includes(event.id, "news_") THEN "News"
       ELSE IF includes(event.id, "twitter_") THEN "Twitter"
       ELSE IF includes(event.id, "crisis_") THEN "Intelligence"
       ELSE "Manual"
  ELSE LET l == toLowerCase(source) IN
       CASE l = "acled" -> "ACLED"
         [] l = "news" -> "News"
         [] l = "twitter" -> "Twitter"
         [] l = "intelligence" -> "Intelligence"
         [] l = "crisiswatch" -> "CrisisWatch"
         [] OTHER -> "Manual"

\* mutant: the severity supplied upstream is kept
validateSeverityTrusting(event, clock) == event.severity

\* "Don't trust existing severity, recalculate based on data"
validateSeverity(event, clock) == calculateSeverity(event, clock)

\* Number.prototype.toFixed(2) of x thousandths: sign and hundredths
toFixed2(x) ==
  IF x < 0 THEN [neg |-> TRUE, n |-> ((0 - x) + 5) \div 10]
  ELSE [neg |-> FALSE, n |-> (x + 5) \div 10]

dedupeKey(location, coordinates, timestamp, eventType) ==
  <<location, toFixed2(coordinates.lat), toFixed2(coordinates.lng), timestamp, eventType>>

\* event.latitude arrived as a numeric string and is the value chosen for lat
latIsStringValue(event) ==
  /\ event.latIsString
  /\ event.coordinates.lat = 0
  /\ event.latitude # 0
  /\ validateCoordinates(event).lat = event.latitude

(***************************************************************************)
(* performDataFetch: normalisation, deduplication, sort.                   *)
(***************************************************************************)
Null == [isNull |-> TRUE]

Fulfilled(events) == [isNull |-> FALSE, value |-> events]

\* mutant: records of an unrecognised source are skipped as well
IsValidCoreKnownSource(event) ==
  /\ validateAndNormalizeLocation(event) # "INVALID"
  /\ validateEventType(event) # "INVALID"
  /\ validateSource(event) # "Manual"

\* "if (location !== 'INVALID' && eventType !== 'INVALID')"
IsValidCore(event) ==
  validateAndNormalizeLocation(event) # "INVALID" /\ validateEventType(event) # "INVALID"

\* coordinates.lat.toFixed is not a function when lat is a string
ThrowsTypeError(event) == IsValidCore(event) /\ latIsStringValue(event)

eventKey(event, clock) ==
  dedupeKey(validateAndNormalizeLocation(event), validateCoordinates(event),
            validateTimestamp(event, clock), validateEventType(event))

normalizedEvent(event, clock) ==
  [event EXCEPT !.location = validateAndNormalizeLocation(event),
                !.coordinates = validateCoordinates(event),
                !.timestamp = validateTimestamp(event, clock),
                !.eventType = validateEventType(event),
                !.source = validateSource(event),
                !.severity = validateSeverity(event, clock)]

RECURSIVE Flatten(_)
Flatten(results) ==
  IF results = <<>> THEN <<>>
  ELSE LET r == Head(results) IN
       (IF r.isNull THEN <<>> ELSE r.value) \o Flatten(Tail(results))

\* mutant: a record whose key has been seen replaces the event stored under that key
RECURSIVE forEachEventLastWins(_, _, _)
forEachEventLastWins(events, clock, acc) ==
  IF events = <<>> \/ acc.thrown THEN acc
  ELSE LET event == Head(events)
           key == eventKey(event, clock)
       IN IF ~IsValidCore(event)
          THEN forEachEventLastWins(Tail(events), clock, acc)
          ELSE IF ThrowsTypeError(event)
          THEN [acc EXCEPT !.thrown = TRUE]
          ELSE IF key \in acc.eventIds
          THEN forEachEventLastWins(Tail(events), clock,
                 [acc EXCEPT !.allEvents =
                    [i \in DOMAIN @ |->
                       IF dedupeKey(@[i].location, @[i].coordinates, @[i].timestamp,
                                    @[i].eventType) = key
                       THEN normalizedEvent(event, clock) ELSE @[i]]])
          ELSE forEachEventLastWins(Tail(events), clock,
                 [acc EXCEPT !.eventIds = @ \cup {key},
                             !.allEvents = Append(@, normalizedEvent(event, clock))])

\* results.forEach(... events.forEach(...)) over the records in order
RECURSIVE forEachEvent(_, _, _)
forEachEvent(events, clock, acc) ==
  IF events = <<>> \/ acc.thrown THEN acc
  ELSE LET event == Head(events)
           key == eventKey(event, clock)
       IN IF ~IsValidCore(event)
          THEN forEachEvent(Tail(events), clock, acc)
          ELSE IF ThrowsTypeError(event)
          THEN [acc EXCEPT !.thrown = TRUE]
          ELSE IF key \in acc.eventIds
          THEN forEachEvent(Tail(events), clock, acc)
          ELSE forEachEvent(Tail(events), clock,
                 [acc EXCEPT !.eventIds = @ \cup {key},
                             !.allEvents = Append(@, normalizedEvent(event, clock))])

severityOrder(severity) ==
  CASE severity = "critical" -> 4
    [] severity = "high" -> 3
    [] severity = "medium" -> 2
    [] OTHER -> 1

\* mutant: among equal timestamps the lower severity goes first
compareEventsAscending(a, b) ==
  LET dateComparison == b.timestamp - a.timestamp IN
  IF dateComparison # 0 THEN dateComparison
  ELSE severityOrder(a.severity) - severityOrder(b.severity)

\* the comparator of allEvents.sort: negative when a sorts before b
compareEvents(a, b) ==
  LET dateComparison == b.timestamp - a.timestamp IN
  IF dateComparison # 0 THEN dateComparison
  ELSE severityOrder(b.severity) - severityOrder(a.severity)

\* mutant: x goes before the events it compares equal to
RECURSIVE InsertSortedBeforeEquals(_, _)
InsertSortedBeforeEquals(sorted, x) ==
  IF sorted = <<>> THEN <<x>>
  ELSE IF compareEvents(Head(sorted), x) >= 0 THEN <<x>> \o sorted
  ELSE <<Head(sorted)>> \o InsertSortedBeforeEquals(Tail(sorted), x)

\* Array.prototype.sort is stable: x goes before the first y that must follow it
RECURSIVE InsertSorted(_, _)
InsertSorted(sorted, x) ==
  IF sorted = <<>> THEN <<x>>
  ELSE IF compareEvents(Head(sorted), x) > 0 THEN <<x>> \o sorted
  ELSE <<Head(sorted)>> \o InsertSorted(Tail(sorted), x)

RECURSIVE sortEvents(_, _)
sortEvents(events, sorted) ==
  IF events = <<>> THEN sorted
  ELSE sortEvents(Tail(events), InsertSorted(sorted, Head(events)))

NoEntry == [present |-> FALSE]

\* mutant: the entry is stored before its last event has been added
CacheEntryPartial(data, timestamp, sources) ==
  [present |-> TRUE, data |-> IF data = <<>> THEN data ELSE SubSeq(data, 1, Len(data) - 1),
   timestamp |-> timestamp, sources |-> sources]

CacheEntry(data, timestamp, sources) ==
  [present |-> TRUE, data |-> data, timestamp |-> timestamp, sources |-> sources]

Returned(events) == [threw |-> FALSE, value |-> events]

Threw == [threw |-> TRUE]

\* mutant: the error is rethrown
catchFetchErrorRethrow(cached) == Threw

\* the catch block of performDataFetch
catchFetchError(cached) ==
  IF cached.present THEN Returned(cached.data) ELSE Returned(<<>>)

\* the try block of performDataFetch after Promise.allSettled:
\* the value returned and the entry written to the cache, if any
settleDataFetch(results, clock, cached) ==
  LET acc == forEachEvent(Flatten(results), clock,
                          [thrown |-> FALSE, eventIds |-> {}, allEvents |-> <<>>])
      allEvents == sortEvents(acc.allEvents, <<>>)
  IN IF acc.thrown
     THEN [outcome |-> catchFetchError(cached), write |-> NoEntry]
     ELSE [outcome |-> Returned(allEvents),
           write |-> CacheEntry(allEvents, clock, Len(results))]

(***************************************************************************)
(* Records delivered by the source adapters.                               *)
(***************************************************************************)
BaseRecord ==
  [id |-> "news_1", location |-> "Gaza", country |-> "", region |-> "",
   coordinates |-> [lat |-> 31354, lng |-> 34308], latitude |-> 0, longitude |-> 0,
   latIsString |-> FALSE, timestamp |-> Now0 - 60, date |-> NoTime,
   eventType |-> "Battle", event_type |-> "", source |-> "News",
   severity |-> "low", fatalities |-> 0, verified |-> FALSE]

NoPlaceRecord ==
  [BaseRecord EXCEPT !.id = "evt_9", !.location = "",
                     !.coordinates = [lat |-> 0, lng |-> 0]]

RawRecords ==
  { BaseRecord,
    [BaseRecord EXCEPT !.id = "acled_1", !.source = "ACLED", !.severity = "critical"],
    [BaseRecord EXCEPT !.id = "twitter_1", !.source = "", !.timestamp = Now0 - 180],
    [BaseRecord EXCEPT !.location = "Gaza Strip",
                       !.coordinates = [lat |-> 31351, lng |-> 34312]],
    [BaseRecord EXCEPT !.id = "news_2", !.coordinates = [lat |-> 31356, lng |-> 34308]],
    [BaseRecord EXCEPT !.eventType = "", !.event_type = "Armed clash", !.fatalities = 30],
    [BaseRecord EXCEPT !.id = "acled_2", !.eventType = "Rally", !.source = "Reuters"],
    [BaseRecord EXCEPT !.id = "crisis_1", !.timestamp = NoTime, !.source = ""],
    [BaseRecord EXCEPT !.timestamp = BadTime, !.verified = TRUE, !.fatalities = 120,
                       !.eventType = "Bombing", !.source = "ACLED"],
    [BaseRecord EXCEPT !.timestamp = Now0 + 60],
    [BaseRecord EXCEPT !.coordinates = [lat |-> 95000, lng |-> 34308]],
    [BaseRecord EXCEPT !.coordinates = [lat |-> 0, lng |-> 0],
                       !.latitude = 31354, !.longitude = 34308, !.latIsString = TRUE],
    NoPlaceRecord,
    [NoPlaceRecord EXCEPT !.country = "Syria"],
    [NoPlaceRecord EXCEPT !.region = "Middle East"],
    [NoPlaceRecord EXCEPT !.country = "Syria", !.eventType = ""],
    [NoPlaceRecord EXCEPT !.coordinates = [lat |-> 48593, lng |-> 37996]],
    [NoPlaceRecord EXCEPT !.coordinates = [lat |-> 0, lng |-> 200000]] }

BatchesUpTo(n) == UNION { [1..k -> RawRecords] : k \in 0..n }

\* the settled results of two sources: a batch split in two, or one source without data
PipeInputs ==
  { <<Fulfilled(SubSeq(b, 1, k)), Fulfilled(SubSeq(b, k + 1, Len(b)))>> :
      <<b, k>> \in { <<b, k>> \in BatchesUpTo(MaxLen) \X (0..MaxLen) : k <= Len(b) } }
  \cup { <<Null, Fulfilled(b)>> : b \in BatchesUpTo(MaxLen) }

NotRun == [ran |-> FALSE]

\* what a successful call of each source adapter may return
AcledBatch ==
  [k \in 1..5 |-> [BaseRecord EXCEPT !.id = "acled_1", !.source = "ACLED",
                                     !.timestamp = Now0 - 60 - (k - 1) * MinutesPerDay,
                                     !.fatalities = 5 * k]]

\* the first record is the incident of AcledBatch[1], reported 150 minutes earlier
IntelligenceBatch ==
  << [BaseRecord EXCEPT !.id = "crisis_1", !.source = "Intelligence",
                        !.timestamp = Now0 - 210],
     [BaseRecord EXCEPT !.id = "crisis_1", !.source = "Intelligence",
                        !.location = "Syria", !.verified = TRUE],
     [BaseRecord EXCEPT !.id = "crisis_1", !.source = "Intelligence",
                        !.location = "UK", !.timestamp = Now0 - 60] >>

NewsBatch ==
  << [BaseRecord EXCEPT !.location = "Gaza Strip", !.timestamp = Now0 - 2 * MinutesPerDay],
     [NoPlaceRecord EXCEPT !.country = "Syria", !.eventType = ""] >>

MistypedBatch ==
  << [BaseRecord EXCEPT !.coordinates = [lat |-> 0, lng |-> 0],
                        !.latitude = 31354, !.longitude = 34308, !.latIsString = TRUE] >>

SourceBatches(sourceName) ==
  CASE sourceName = "ACLED" -> {AcledBatch, MistypedBatch}
    [] sourceName = "Twitter" -> {<<>>}
    [] sourceName = "News" -> {NewsBatch}
    [] OTHER -> {IntelligenceBatch}

(***************************************************************************)
(* State of the aggregator.                                                *)
(***************************************************************************)
Sources == <<"ACLED", "Twitter", "News", "Intelligence">>

SourceNames == {Sources[i] : i \in 1..Len(Sources)}

Callers == 1..NCallers

PassIds == 1..NCallers

NoTask == [st |-> "off", result |-> Null]

NoPass == [st |-> "unused", cached |-> NoEntry, tasks |-> [s \in SourceNames |-> NoTask],
           outcome |-> Returned(<<>>), errorsBefore |-> [s \in SourceNames |-> 0]]

IdleCaller == [pc |-> "idle", forceRefresh |-> FALSE, pass |-> 0]

\* the value of the call that returned last, until a call has to wait; intact until
\* the cache changes; repeat when it was a cache hit that followed an intact return
NoReturn == [outcome |-> Returned(<<>>), hit |-> FALSE, intact |-> FALSE, repeat |-> FALSE]

\* initializeSourceStatus: ACLED is enabled when it has an API key, the scrapers and
\* the crisis monitor always
initializeSourceStatus(acledConfigured) ==
  [s \in SourceNames |->
     [enabled |-> CASE s = "ACLED" -> acledConfigured
                    [] OTHER -> TRUE,
      lastFetch |-> NoTime, errorCount |-> 0, eventCount |-> 0]]

InitWith(status) ==
  /\ now = Now0
  /\ cache = [k \in {"all_events"} |-> NoEntry]
  /\ sourceStatus = status
  /\ isRefreshing = [k \in {"all_events"} |-> 0]
  /\ passes = [p \in PassIds |-> NoPass]
  /\ callers = [c \in Callers |-> IdleCaller]
  /\ lastReturn = NoReturn
  /\ pin = <<>>
  /\ pout = NotRun

\* no ACLED API key
Init == InitWith(initializeSourceStatus(FALSE))

\* mutant: the error count survives a success
updateSourceStatusNoReset(status, sourceName, success, eventCount, clock) ==
  [status EXCEPT ![sourceName] =
     [@ EXCEPT !.lastFetch = clock,
               !.eventCount = eventCount,
               !.errorCount = IF success THEN @ ELSE @ + 1]]

updateSourceStatus(status, sourceName, success, eventCount, clock) ==
  [status EXCEPT ![sourceName] =
     [@ EXCEPT !.lastFetch = clock,
               !.eventCount = eventCount,
               !.errorCount = IF success THEN 0 ELSE @ + 1]]

(***************************************************************************)
(* fetchWithRetry.  The adapter's behaviour is the sequence of the         *)
(* outcomes of its successive calls: a batch, an error, or no answer       *)
(* within the 15 s of Promise.race.                                        *)
(***************************************************************************)
Resolves(batch) == [ok |-> TRUE, value |-> batch]

Rejects(reason) == [ok |-> FALSE, reason |-> reason]

FailuresOfLength(k) == {[i \in 1..k |-> Rejects(reason)] : reason \in {"error", "timeout"}}

\* what the adapter of sourceName does call after call, for one call more than
\* fetchWithRetry makes: some failures and then a batch, or failures only
AttemptOutcomes(sourceName) ==
  { f \o <<Resolves(b)>> :
      <<f, b>> \in (UNION {FailuresOfLength(k) : k \in 0..maxRetries})
                   \X SourceBatches(sourceName) }
  \cup FailuresOfLength(maxRetries + 1)

\* the adapter behaviours the coordinator is run against: an answer at once, an answer
\* after one timeout, or failures only
CoordinatorOutcomes(sourceName) ==
  { o \in AttemptOutcomes(sourceName) :
      \/ Len(o) = 1
      \/ (Len(o) = 2 /\ o[1].reason = "timeout")
      \/ (Len(o) = maxRetries + 1 /\ ~o[maxRetries + 1].ok) }

\* mutant: the test for the last attempt is off by one
isFinalAttemptLate(attempt) == attempt = maxRetries + 1

\* "if (attempt === maxRetries)" in the catch block of fetchWithRetry
isFinalAttempt(attempt) == attempt = maxRetries

\* mutant: the first delay is the base delay
backoffDelayFromBase(attempt, jitter) == (2 ^ (attempt - 1)) * 1000 + jitter

\* the delay before the next attempt, in ms, for a jitter in [0, 1000)
backoffDelay(attempt, jitter) == (2 ^ attempt) * 1000 + jitter

\* values of Math.random() * 1000, in ms
JitterValues == {0, 500, 999}

\* the jitter drawn after each attempt, should it fail
JitterDraws == [1..maxRetries -> JitterValues]

NoJitter == [attempt \in 1..maxRetries |-> 0]

\* the for loop of fetchWithRetry from attempt on: the value returned, the calls made,
\* the status update (if any) and the delays slept, the jitter after attempt i being
\* acc.jitters[i]
RECURSIVE retryLoop(_, _, _)
retryLoop(outcomes, attempt, acc) ==
  IF ~(attempt <= maxRetries)
  THEN [acc EXCEPT !.result = Null]
  ELSE LET outcome == outcomes[attempt]
           called == [acc EXCEPT !.calls = @ + 1]
       IN IF outcome.ok
          THEN [called EXCEPT !.result = Fulfilled(outcome.value),
                              !.update = "success",
                              !.eventCount = Len(outcome.value)]
          ELSE IF isFinalAttempt(attempt)
          THEN [called EXCEPT !.result = Null, !.update = "failure"]
          ELSE retryLoop(outcomes, attempt + 1,
                 [called EXCEPT !.delays = Append(@, backoffDelay(attempt, acc.jitters[attempt]))])

fetchWithJitter(outcomes, jitters) ==
  retryLoop(outcomes, 1,
            [result |-> Null, calls |-> 0, update |-> "none", eventCount |-> 0,
             delays |-> <<>>, jitters |-> jitters])

\* the call where the length of the sleeps is of no account
fetchWithRetry(outcomes) == fetchWithJitter(outcomes, NoJitter)

\* the source status after fetchWithRetry returned r for sourceName
statusAfterFetch(status, sourceName, r, clock) ==
  IF r.update = "none" THEN status
  ELSE updateSourceStatus(status, sourceName, r.update = "success", r.eventCount, clock)

\* mutant: the age test is inverted
cacheIsValidInverted(forceRefresh, cached, clock) ==
  ~forceRefresh /\ cached.present /\ clock - cached.timestamp > cacheTTL

\* "!forceRefresh && cached && Date.now() - cached.timestamp < this.cacheTTL"
cacheIsValid(forceRefresh, cached, clock) ==
  ~forceRefresh /\ cached.present /\ clock - cached.timestamp < cacheTTL

\* mutant: the check for a refresh in progress is missing
alreadyRefreshingNever(refreshing, cacheKey) == FALSE

\* "this.isRefreshing.has(cacheKey)"
alreadyRefreshing(refreshing, cacheKey) == refreshing[cacheKey] # 0

FreePasses == {p \in PassIds : passes[p].st = "unused"}

EnabledSeq == SelectSeq(Sources, LAMBDA s : sourceStatus[s].enabled)

\* the synchronous start of performDataFetch: one fetchWithRetry per enabled source,
\* each of which calls its adapter at once
startDataFetch(cached) ==
  [st |-> "fetching", cached |-> cached,
   tasks |-> [s \in SourceNames |->
                IF sourceStatus[s].enabled
                THEN [st |-> "calling", result |-> Null]
                ELSE NoTask],
   outcome |-> Returned(<<>>),
   errorsBefore |-> [s \in SourceNames |-> sourceStatus[s].errorCount]]

pipeVars == <<pin, pout>>

\* the continuations of a settled refresh are queued microtasks: they all run before
\* the event loop takes the next task, so before any new call, timer or clock step
MicrotasksPending == \E p \in PassIds : passes[p].st = "done"

\* getAllConflictEvents up to its first suspension: a cache hit returns at once, a call
\* during a refresh waits for it, any other call starts performDataFetch
\* (a new call is given the first free caller record: callers differ in nothing else)
getAllConflictEvents(c, forceRefresh) ==
  LET cacheKey == "all_events"
      cached == cache[cacheKey]
  IN
  /\ callers[c].pc = "idle"
  /\ \A o \in Callers : callers[o].pc = "idle" => c <= o
  /\ ~MicrotasksPending
  /\ IF cacheIsValid(forceRefresh, cached, now)
     THEN /\ lastReturn' = [outcome |-> Returned(cached.data), hit |-> TRUE,
                            intact |-> TRUE, repeat |-> lastReturn.intact]
          /\ UNCHANGED <<callers, passes, isRefreshing>>
     ELSE IF alreadyRefreshing(isRefreshing, cacheKey)
     THEN /\ callers' = [callers EXCEPT ![c] =
                 [pc |-> "awaitJoin", forceRefresh |-> forceRefresh,
                  pass |-> isRefreshing[cacheKey]]]
          /\ lastReturn' = NoReturn
          /\ UNCHANGED <<passes, isRefreshing>>
     ELSE /\ FreePasses # {}
          /\ LET p == CHOOSE q \in FreePasses : \A r \in FreePasses : q <= r IN
             /\ passes' = [passes EXCEPT ![p] = startDataFetch(cached)]
             /\ isRefreshing' = [isRefreshing EXCEPT ![cacheKey] = p]
             /\ callers' = [callers EXCEPT ![c] =
                   [pc |-> "awaitOwn", forceRefresh |-> forceRefresh, pass |-> p]]
          /\ lastReturn' = NoReturn
  /\ UNCHANGED <<now, cache, sourceStatus, pipeVars>>

\* the fetchWithRetry task of source s in pass p returns.  Its attempts and sleeps
\* before that touch no shared state; the status is updated when it returns.
FetchReturns(p, s, outcomes) ==
  /\ ~MicrotasksPending
  /\ passes[p].st = "fetching"
  /\ passes[p].tasks[s].st = "calling"
  /\ LET r == fetchWithRetry(outcomes) IN
     /\ r.update = "failure" => sourceStatus[s].errorCount < MaxErrors
     /\ passes' = [passes EXCEPT ![p].tasks[s] = [st |-> "done", result |-> r.result]]
     /\ sourceStatus' = statusAfterFetch(sourceStatus, s, r, now)
  /\ UNCHANGED <<now, cache, isRefreshing, callers, lastReturn, pipeVars>>

\* the results array of Promise.allSettled: the enabled sources in source order
settledResults(p) == [i \in 1..Len(EnabledSeq) |-> passes[p].tasks[EnabledSeq[i]].result]

\* mutant: the promise resolves as soon as one source task has settled
promiseAnySettled(tasks) == \E s \in SourceNames : tasks[s].st = "done"

\* the promise of Promise.allSettled(dataPromises) has resolved
promiseAllSettled(tasks) == \A s \in SourceNames : tasks[s].st \in {"off", "done"}

\* performDataFetch resumes after Promise.allSettled
AllSettled(p) ==
  /\ passes[p].st = "fetching"
  /\ promiseAllSettled(passes[p].tasks)
  /\ LET r == settleDataFetch(settledResults(p), now, passes[p].cached) IN
     /\ passes' = [passes EXCEPT ![p].st = "done", ![p].outcome = r.outcome]
     /\ IF r.write.present
        THEN /\ cache' = [cache EXCEPT !["all_events"] = r.write]
             /\ lastReturn' = [lastReturn EXCEPT !.intact = FALSE]
        ELSE UNCHANGED <<cache, lastReturn>>
  /\ UNCHANGED <<now, sourceStatus, isRefreshing, callers, pipeVars>>

\* mutant: the promise of a pass is dropped with the first caller that returns from it
releasePassAtOnce(c) == [passes EXCEPT ![callers[c].pass] = NoPass]

\* the record of a pass is dropped once no caller waits for its promise
releasePass(c) ==
  LET p == callers[c].pass IN
  IF \E o \in Callers \ {c} : callers[o].pc # "idle" /\ callers[o].pass = p
  THEN passes
  ELSE [passes EXCEPT ![p] = NoPass]

\* mutant: the starter returns without the finally block
RefreshReturnsKeepsTracker(c) ==
  /\ callers[c].pc = "awaitOwn"
  /\ passes[callers[c].pass].st = "done"
  /\ callers' = [callers EXCEPT ![c] = IdleCaller]
  /\ passes' = releasePass(c)
  /\ lastReturn' = [outcome |-> passes[callers[c].pass].outcome, hit |-> FALSE,
                    intact |-> TRUE, repeat |-> FALSE]
  /\ UNCHANGED <<now, cache, sourceStatus, isRefreshing, pipeVars>>

\* the caller that started the refresh resumes: finally { isRefreshing.delete }
RefreshReturns(c) ==
  /\ callers[c].pc = "awaitOwn"
  /\ passes[callers[c].pass].st = "done"
  /\ isRefreshing' = [isRefreshing EXCEPT !["all_events"] = 0]
  /\ callers' = [callers EXCEPT ![c] = IdleCaller]
  /\ passes' = releasePass(c)
  /\ lastReturn' = [outcome |-> passes[callers[c].pass].outcome, hit |-> FALSE,
                    intact |-> TRUE, repeat |-> FALSE]
  /\ UNCHANGED <<now, cache, sourceStatus, pipeVars>>

\* a caller that waited on the promise in isRefreshing resumes, after the starter
WaiterReturns(c) ==
  /\ callers[c].pc = "awaitJoin"
  /\ passes[callers[c].pass].st = "done"
  /\ \A o \in Callers : ~(callers[o].pc = "awaitOwn" /\ callers[o].pass = callers[c].pass)
  /\ callers' = [callers EXCEPT ![c] = IdleCaller]
  /\ passes' = releasePass(c)
  /\ lastReturn' = [outcome |-> passes[callers[c].pass].outcome, hit |-> FALSE,
                    intact |-> TRUE, repeat |-> FALSE]
  /\ UNCHANGED <<now, cache, sourceStatus, isRefreshing, pipeVars>>

clearCache ==
  /\ ~MicrotasksPending
  /\ \E k \in DOMAIN cache : cache[k].present
  /\ cache' = [k \in DOMAIN cache |-> NoEntry]
  /\ lastReturn' = [lastReturn EXCEPT !.intact = FALSE]
  /\ UNCHANGED <<now, sourceStatus, isRefreshing, passes, callers, pipeVars>>

\* time passes, by cacheTTL or a minute less
Tick(d) ==
  /\ now + d <= Now0 + MaxElapsed
  /\ ~MicrotasksPending
  /\ now' = now + d
  /\ UNCHANGED <<cache, sourceStatus, isRefreshing, passes, callers, lastReturn, pipeVars>>

Next ==
  \/ \E c \in Callers, f \in BOOLEAN : getAllConflictEvents(c, f)
  \/ \E p \in PassIds, s \in SourceNames : \E o \in CoordinatorOutcomes(s) : FetchReturns(p, s, o)
  \/ \E p \in PassIds : AllSettled(p)
  \/ \E c \in Callers : RefreshReturns(c)
  \/ \E c \in Callers : WaiterReturns(c)
  \/ clearCache
  \/ \E d \in {cacheTTL - 1, cacheTTL} : Tick(d)

Spec == Init /\ [][Next]_vars

\* the source task of s in pass p can return: FetchReturns(p, s, o) is enabled for the
\* outcomes o that end in an answer
TaskCanReturn(p, s) ==
  ~MicrotasksPending /\ passes[p].st = "fetching" /\ passes[p].tasks[s].st = "calling"

\* performDataFetch of pass p can resume: AllSettled(p) is enabled
ReadyToResume(p) == passes[p].st = "fetching" /\ promiseAllSettled(passes[p].tasks)

\* the event loop does not stop while a step is ready: a caller of a settled refresh
\* resumes, a source task returns (every attempt ends, with an answer, an error or the
\* 15 s timer of Promise.race) and performDataFetch resumes once its tasks have
\* settled.  Calls, clearCache and the passing of time are not forced.  The last two
\* conjuncts are weak fairness of FetchReturns and of AllSettled, each written with
\* the enabling condition of the action and its effect on the pass
Fairness ==
  /\ WF_vars(\E c \in Callers : RefreshReturns(c) \/ WaiterReturns(c))
  /\ \/ []<>(\A p \in PassIds, s \in SourceNames : ~TaskCanReturn(p, s))
     \/ []<><<\E p \in PassIds, s \in SourceNames :
                TaskCanReturn(p, s) /\ passes'[p].tasks[s].st = "done">>_vars
  /\ \/ []<>(\A p \in PassIds : ~ReadyToResume(p))
     \/ []<><<\E p \in PassIds : ReadyToResume(p) /\ passes'[p].st = "done">>_vars

SpecLive == Spec /\ Fairness

(***************************************************************************)
(* The aggregation pass alone, on the inputs of PipeInputs.                *)
(***************************************************************************)
InitPipe ==
  /\ now = Now0
  /\ cache = [k \in {"all_events"} |-> NoEntry]
  /\ sourceStatus = initializeSourceStatus(FALSE)
  /\ isRefreshing = [k \in {"all_events"} |-> 0]
  /\ passes = [p \in PassIds |-> NoPass]
  /\ callers = [c \in Callers |-> IdleCaller]
  /\ lastReturn = NoReturn
  /\ pin \in PipeInputs
  /\ pout = NotRun

\* performDataFetch from Promise.allSettled on, with an empty cache
Aggregate ==
  /\ ~pout.ran
  /\ pout' = [ran |-> TRUE, outcome |-> settleDataFetch(pin, now, NoEntry).outcome]
  /\ UNCHANGED <<now, cache, sourceStatus, isRefreshing, passes, callers, lastReturn, pin>>

NextPipe == Aggregate

SpecPipe == InitPipe /\ [][NextPipe]_vars

(***************************************************************************)
(* The aggregation pass on one record, over the place fields a record may  *)
(* carry: a place name (plain, padded, abbreviated or blank), a country, a *)
(* region, and coordinates (none, in a region, out of range, elsewhere).   *)
(***************************************************************************)
PlaceNames == {"", "Gaza Strip", " Gaza ", "UK", " "}

LocationRecords ==
  { [BaseRecord EXCEPT !.location = l, !.country = c, !.region = r, !.coordinates = xy] :
      l \in PlaceNames, c \in {"", "Syria"}, r \in {"", "Middle East"},
      xy \in { [lat |-> 0, lng |-> 0], [lat |-> 48593, lng |-> 37996],
               [lat |-> 0, lng |-> 200000], [lat |-> 31354, lng |-> 34308] } }

InitLocation ==
  /\ now = Now0
  /\ cache = [k \in {"all_events"} |-> NoEntry]
  /\ sourceStatus = initializeSourceStatus(FALSE)
  /\ isRefreshing = [k \in {"all_events"} |-> 0]
  /\ passes = [p \in PassIds |-> NoPass]
  /\ callers = [c \in Callers |-> IdleCaller]
  /\ lastReturn = NoReturn
  /\ pin \in { <<Fulfilled(<<r>>)>> : r \in LocationRecords }
  /\ pout = NotRun

SpecLocation == InitLocation /\ [][NextPipe]_vars

(***************************************************************************)
(* The end-to-end scenario: ACLED configured, one caller forcing refreshes. *)
(***************************************************************************)
InitE2E == InitWith(initializeSourceStatus(TRUE))

NextE2E ==
  \/ getAllConflictEvents(1, TRUE)
  \/ \E p \in PassIds, s \in SourceNames : \E o \in CoordinatorOutcomes(s) : FetchReturns(p, s, o)
  \/ \E p \in PassIds : AllSettled(p)
  \/ RefreshReturns(1)

SpecE2E == InitE2E /\ [][NextE2E]_vars

(***************************************************************************)
(* fetchWithRetry alone: one call for a source in any status it can have.  *)
(***************************************************************************)
PriorStatuses(sourceName) ==
  { [enabled |-> TRUE, lastFetch |-> NoTime, errorCount |-> 0, eventCount |-> 0] }
  \cup { [enabled |-> TRUE, lastFetch |-> Now0 - cacheTTL, errorCount |-> 0,
          eventCount |-> Len(b)] : b \in SourceBatches(sourceName) }
  \cup { [enabled |-> TRUE, lastFetch |-> Now0 - cacheTTL, errorCount |-> k,
          eventCount |-> 0] : k \in 1..MaxErrors }

RetryInputs ==
  UNION { [source : {s}, outcomes : AttemptOutcomes(s), before : PriorStatuses(s),
           jitters : JitterDraws] :
            s \in SourceNames }

InitRetry ==
  /\ now = Now0
  /\ cache = [k \in {"all_events"} |-> NoEntry]
  /\ pin \in RetryInputs
  /\ sourceStatus = [initializeSourceStatus(TRUE) EXCEPT ![pin.source] = pin.before]
  /\ isRefreshing = [k \in {"all_events"} |-> 0]
  /\ passes = [p \in PassIds |-> NoPass]
  /\ callers = [c \in Callers |-> IdleCaller]
  /\ lastReturn = NoReturn
  /\ pout = NotRun

\* one call of fetchWithRetry(fetchFn, pin.source), from its first attempt to its return
RetryReturns ==
  /\ ~pout.ran
  /\ LET r == fetchWithJitter(pin.outcomes, pin.jitters) IN
     /\ sourceStatus' = statusAfterFetch(sourceStatus, pin.source, r, now)
     /\ pout' = [ran |-> TRUE, r |-> r]
  /\ UNCHANGED <<now, cache, isRefreshing, passes, callers, lastReturn, pin>>

NextRetry == RetryReturns

SpecRetry == InitRetry /\ [][NextRetry]_vars

(***************************************************************************)
(* The aggregation pass on records that differ in place, time and number   *)
(* of fatalities only: the order of its output.                            *)
(***************************************************************************)
SortRecords ==
  { [BaseRecord EXCEPT !.location = location, !.timestamp = timestamp,
                       !.fatalities = fatalities] :
      location \in {"Gaza", "Syria"},
      timestamp \in {Now0 - 60, Now0 - 180},
      fatalities \in {0, 30, 120} }

SortInputs == { <<Fulfilled(b)>> : b \in UNION { [1..k -> SortRecords] : k \in 0..MaxSorted } }

InitSort ==
  /\ now = Now0
  /\ cache = [k \in {"all_events"} |-> NoEntry]
  /\ sourceStatus = initializeSourceStatus(FALSE)
  /\ isRefreshing = [k \in {"all_events"} |-> 0]
  /\ passes = [p \in PassIds |-> NoPass]
  /\ callers = [c \in Callers |-> IdleCaller]
  /\ lastReturn = NoReturn
  /\ pin \in SortInputs
  /\ pout = NotRun

NextSort == Aggregate

SpecSort == InitSort /\ [][NextSort]_vars

(***************************************************************************)
(* calculateSeverity alone: one event classified with two fatality counts. *)
(***************************************************************************)
FatalityCounts == {0, 1, 4, 5, 9, 10, 24, 25, 49, 50, 99, 100, 120}

SeverityEvents ==
  { [BaseRecord EXCEPT !.eventType = eventType, !.source = source,
                       !.verified = verified, !.timestamp = timestamp,
                       !.fatalities = fatalities] :
      eventType \in {"Battle", "Bombing", "Rally", ""},
      source \in {"ACLED", "News", "Twitter", "Reuters"},
      verified \in BOOLEAN,
      timestamp \in {Now0 - 60, Now0 - 600, Now0 - 2 * MinutesPerDay, NoTime},
      fatalities \in FatalityCounts }

SeverityInputs ==
  { in \in [event : SeverityEvents, more : FatalityCounts] : in.more >= in.event.fatalities }

InitSeverity ==
  /\ now = Now0
  /\ cache = [k \in {"all_events"} |-> NoEntry]
  /\ sourceStatus = initializeSourceStatus(FALSE)
  /\ isRefreshing = [k \in {"all_events"} |-> 0]
  /\ passes = [p \in PassIds |-> NoPass]
  /\ callers = [c \in Callers |-> IdleCaller]
  /\ lastReturn = NoReturn
  /\ pin \in SeverityInputs
  /\ pout = NotRun

\* calculateSeverity(event) and calculateSeverity of the event with more fatalities
Classify ==
  /\ ~pout.ran
  /\ pout' = [ran |-> TRUE,
              lower |-> calculateSeverity(pin.event, now),
              higher |-> calculateSeverity([pin.event EXCEPT !.fatalities = pin.more], now)]
  /\ UNCHANGED <<now, cache, sourceStatus, isRefreshing, passes, callers, lastReturn, pin>>

NextSeverity == Classify

SpecSeverity == InitSeverity /\ [][NextSeverity]_vars

(***************************************************************************)
(* lib/utils: calculatePercentageChange on two counts.  The number it      *)
(* returns is the fraction num / den (the rounding of doubles aside).      *)
(***************************************************************************)
\* mutant: no special case for a previous count of 0
calculatePercentageChangeUnguarded(current, previous) ==
  [num |-> (current - previous) * 100, den |-> previous]

calculatePercentageChange(current, previous) ==
  IF previous = 0
  THEN [num |-> IF current > 0 THEN 100 ELSE 0, den |-> 1]
  ELSE [num |-> (current - previous) * 100, den |-> previous]

PercentInputs == [current : 0..MaxCount, previous : 0..MaxCount]

InitPercent ==
  /\ now = Now0
  /\ cache = [k \in {"all_events"} |-> NoEntry]
  /\ sourceStatus = initializeSourceStatus(FALSE)
  /\ isRefreshing = [k \in {"all_events"} |-> 0]
  /\ passes = [p \in PassIds |-> NoPass]
  /\ callers = [c \in Callers |-> IdleCaller]
  /\ lastReturn = NoReturn
  /\ pin \in PercentInputs
  /\ pout = NotRun

PercentageChange ==
  /\ ~pout.ran
  /\ pout' = [ran |-> TRUE, r |-> calculatePercentageChange(pin.current, pin.previous)]
  /\ UNCHANGED <<now, cache, sourceStatus, isRefreshing, passes, callers, lastReturn, pin>>

NextPercent == PercentageChange

SpecPercent == InitPercent /\ [][NextPercent]_vars

(***************************************************************************)
(* lib/api/acled: getCriticalEvents of the ACLED client, and               *)
(* getCriticalEvents of the aggregator, which relays it under the cache    *)
(* key critical_events.                                                    *)
(***************************************************************************)
acledId(event_id) ==
  CASE event_id = "1" -> "acled_1"
    [] OTHER -> "acled_2"

mapEventType(acledType) ==
  CASE acledType = "Violence against civilians" -> "Violence against civilians"
    [] acledType = "Battles" -> "Battle"
    [] acledType = "Explosions/Remote violence" -> "Bombing"
    [] acledType = "Protests" -> "Protest"
    [] acledType = "Riots" -> "Riot"
    [] acledType = "Strategic developments" -> "Strategic development"
    [] OTHER -> "Armed clash"

\* the ConflictEvent built from one event of the API, classified as it is built
transformACLEDEvent(acledEvent, clock) ==
  LET event ==
        [id |-> acledId(acledEvent.event_id), location |-> "",
         country |-> acledEvent.country, region |-> acledEvent.region,
         coordinates |-> [lat |-> 0, lng |-> 0],
         latitude |-> acledEvent.latitude, longitude |-> acledEvent.longitude,
         latIsString |-> FALSE, timestamp |-> clock, date |-> acledEvent.event_date,
         eventType |-> "", event_type |-> mapEventType(acledEvent.event_type),
         source |-> "ACLED", severity |-> "low",
         fatalities |-> acledEvent.fatalities, verified |-> FALSE]
  IN [event EXCEPT !.severity = calculateSeverity(event, clock)]

\* the events the API holds
ApiEvents ==
  { [event_id |-> i, event_date |-> Now0 - MinutesPerDay, country |-> "Syria",
     region |-> "Middle East", latitude |-> lat, longitude |-> 36290,
     event_type |-> t, fatalities |-> f] :
      <<i, lat, t, f>> \in
        { <<"1", 33510, "Battles", 0>>,
          <<"1", 33510, "Battles", 10>>,
          <<"2", 33510, "Violence against civilians", 10>>,
          <<"2", 33510, "Explosions/Remote violence", 120>>,
          <<"1", 33510, "Protests", 30>>,
          <<"2", 0, "Battles", 60>> } }

\* mutant: the query does not bound the fatalities
criticalParamsAnyFatalities(acledEvent) ==
  acledEvent.event_type \in
    {"Violence against civilians", "Battles", "Explosions/Remote violence"}

\* the params of getCriticalEvents, as the API applies them to one of its events
criticalParams(acledEvent) ==
  /\ acledEvent.event_type \in
       {"Violence against civilians", "Battles", "Explosions/Remote violence"}
  /\ acledEvent.fatalities >= 10

\* response.data: up to MaxLen of the events that match the query
CriticalResponses ==
  UNION { [1..k -> {e \in ApiEvents : criticalParams(e)}] : k \in 0..MaxLen }

RECURSIVE MapTransform(_, _)
MapTransform(data, clock) ==
  IF data = <<>> THEN <<>>
  ELSE <<transformACLEDEvent(Head(data), clock)>> \o MapTransform(Tail(data), clock)

\* acledClient.getCriticalEvents: the events with coordinates, transformed; its catch
\* block makes a failed request an empty list
acledGetCriticalEvents(data, clock) ==
  MapTransform(SelectSeq(data, LAMBDA e : e.latitude # 0 /\ e.longitude # 0), clock)

\* what the adapter does call after call when asked for the critical events: it
\* answers, at once or after one timeout, or never answers in time
CriticalOutcomes(clock) ==
  LET answers == {acledGetCriticalEvents(d, clock) : d \in CriticalResponses} IN
  { <<Resolves(b)>> : b \in answers }
  \cup { <<Rejects("timeout"), Resolves(b)>> : b \in answers }
  \cup { [i \in 1..(maxRetries + 1) |-> Rejects("timeout")] }

\* the comparator of the sort of getCriticalEvents
compareCritical(a, b) ==
  LET severityComparison == severityOrder(b.severity) - severityOrder(a.severity) IN
  IF severityComparison # 0 THEN severityComparison
  ELSE b.fatalities - a.fatalities

RECURSIVE InsertCritical(_, _)
InsertCritical(sorted, x) ==
  IF sorted = <<>> THEN <<x>>
  ELSE IF compareCritical(Head(sorted), x) > 0 THEN <<x>> \o sorted
  ELSE <<Head(sorted)>> \o InsertCritical(Tail(sorted), x)

RECURSIVE sortCritical(_, _)
sortCritical(events, sorted) ==
  IF events = <<>> THEN sorted
  ELSE sortCritical(Tail(events), InsertCritical(sorted, Head(events)))

CriticalEntry(data, timestamp) ==
  [present |-> TRUE, data |-> data, timestamp |-> timestamp]

\* getCriticalEvents after Promise.allSettled: the list is built, sorted, cached
\* and returned
settleCritical(c, results) ==
  LET criticalEvents == sortCritical(Flatten(results), <<>>) IN
  /\ cache' = [cache EXCEPT !["critical_events"] = CriticalEntry(criticalEvents, now)]
  /\ callers' = [callers EXCEPT ![c] = IdleCaller]
  /\ lastReturn' = [outcome |-> Returned(criticalEvents), hit |-> FALSE,
                    intact |-> TRUE, repeat |-> FALSE]

\* getCriticalEvents up to its first suspension: a cache hit returns at once; any
\* other call asks ACLED if it is enabled, whatever other calls are doing
getCriticalEvents(c) ==
  LET cacheKey == "critical_events"
      cached == cache[cacheKey]
  IN
  /\ callers[c].pc = "idle"
  /\ \A o \in Callers : callers[o].pc = "idle" => c <= o
  /\ IF cached.present /\ now - cached.timestamp < cacheTTL
     THEN /\ lastReturn' = [outcome |-> Returned(cached.data), hit |-> TRUE,
                            intact |-> TRUE, repeat |-> lastReturn.intact]
          /\ UNCHANGED <<cache, callers>>
     ELSE IF sourceStatus["ACLED"].enabled
     THEN /\ callers' = [callers EXCEPT ![c] =
                 [pc |-> "awaitCritical", forceRefresh |-> FALSE, pass |-> 0]]
          /\ lastReturn' = NoReturn
          /\ UNCHANGED cache
     ELSE settleCritical(c, <<>>)
  /\ UNCHANGED <<now, sourceStatus, isRefreshing, passes, pipeVars>>

\* the fetchWithRetry task of the call of c returns, and the call with it
CriticalFetchReturns(c, outcomes) ==
  /\ callers[c].pc = "awaitCritical"
  /\ LET r == fetchWithRetry(outcomes) IN
     /\ r.update = "failure" => sourceStatus["ACLED"].errorCount < MaxErrors
     /\ sourceStatus' = statusAfterFetch(sourceStatus, "ACLED", r, now)
     /\ settleCritical(c, <<r.result>>)
  /\ UNCHANGED <<now, isRefreshing, passes, pipeVars>>

\* an all-events entry an earlier pass may have left: News and Intelligence answered
EarlierEntry ==
  settleDataFetch(<<Null, Null, Fulfilled(NewsBatch), Fulfilled(IntelligenceBatch)>>,
                  Now0, NoEntry).write

InitCritical ==
  /\ now = Now0
  /\ cache \in { [k \in {"all_events", "critical_events"} |->
                    IF k = "all_events" THEN e ELSE NoEntry] :
                 e \in {NoEntry, EarlierEntry} }
  /\ sourceStatus \in {initializeSourceStatus(a) : a \in BOOLEAN}
  /\ isRefreshing = [k \in {"all_events"} |-> 0]
  /\ passes = [p \in PassIds |-> NoPass]
  /\ callers = [c \in Callers |-> IdleCaller]
  /\ lastReturn = NoReturn
  /\ pin = <<>>
  /\ pout = NotRun

NextCritical ==
  \/ \E c \in Callers : getCriticalEvents(c)
  \/ \E c \in Callers : \E o \in CriticalOutcomes(now) : CriticalFetchReturns(c, o)
  \/ clearCache
  \/ \E d \in {cacheTTL - 1, cacheTTL} : Tick(d)

SpecCritical == InitCritical /\ [][NextCritical]_vars

(***************************************************************************)
(* getDashboardMetrics and the date utilities of lib/utils.  Calendar days *)
(* are those of a server whose local time is UTC.  An instant stands for   *)
(* its whole minute, so the end of a day (23:59:59.999) is its last minute. *)
(***************************************************************************)
startOfDay(clock) == (clock \div MinutesPerDay) * MinutesPerDay

\* start: midnight days days ago; end: the end of today
getDateRange(days, clock) ==
  [start |-> startOfDay(clock) - days * MinutesPerDay,
   end |-> startOfDay(clock) + MinutesPerDay - 1]

\* the range moved back by a number of days, as getDashboardMetrics does
shiftRange(range, days) ==
  [start |-> range.start - days * MinutesPerDay, end |-> range.end - days * MinutesPerDay]

\* the range a days-long window is compared with: getDateRange(2 * days) with both
\* ends moved back by days
priorRange(days, clock) == shiftRange(getDateRange(2 * days, clock), days)

validDate(date) == date # NoTime /\ date # BadTime

isToday(date, clock) ==
  validDate(date) /\ startOfDay(date) = startOfDay(clock)

isYesterday(date, clock) ==
  validDate(date) /\ startOfDay(date) = startOfDay(clock - MinutesPerDay)

getEventDate(event) == JsOr(event.timestamp, event.date, NoTime)

filterEventsByDateRange(events, start, end) ==
  SelectSeq(events, LAMBDA event :
    LET dateStr == getEventDate(event) IN
    validDate(dateStr) /\ dateStr >= start /\ dateStr <= end)

\* the start of the time range, or NoTime for a range that is not filtered
timeRangeStart(timeRange, clock) ==
  CASE timeRange = "1h" -> clock - 60
    [] timeRange = "6h" -> clock - 6 * 60
    [] timeRange = "24h" -> clock - MinutesPerDay
    [] timeRange = "7d" -> clock - 7 * MinutesPerDay
    [] timeRange = "30d" -> clock - 30 * MinutesPerDay
    [] timeRange = "90d" -> clock - 90 * MinutesPerDay
    [] OTHER -> NoTime

filterEventsByTimeRange(events, timeRange, clock) ==
  LET startDate == timeRangeStart(timeRange, clock) IN
  IF startDate = NoTime THEN events
  ELSE SelectSeq(events, LAMBDA event : validDate(event.date) /\ event.date > startDate)

RECURSIVE sumFatalities(_)
sumFatalities(events) ==
  IF events = <<>> THEN 0 ELSE Head(events).fatalities + sumFatalities(Tail(events))

\* mutant: a day without events is rated elevated
calculateGlobalThreatLevelElevated(events, clock) ==
  LET recentEvents == filterEventsByTimeRange(events, "24h", clock)
      totalFatalities == sumFatalities(recentEvents)
      criticalEvents ==
        Len(SelectSeq(recentEvents, LAMBDA e : calculateSeverity(e, clock) = "critical"))
  IN IF criticalEvents >= 5 \/ totalFatalities >= 200 THEN "critical"
     ELSE IF criticalEvents >= 3 \/ totalFatalities >= 100 THEN "severe"
     ELSE IF criticalEvents >= 1 \/ totalFatalities >= 50 THEN "high"
     ELSE IF Len(recentEvents) >= 0 THEN "elevated"
     ELSE "minimal"

calculateGlobalThreatLevel(events, clock) ==
  LET recentEvents == filterEventsByTimeRange(events, "24h", clock)
      totalFatalities == sumFatalities(recentEvents)
      criticalEvents ==
        Len(SelectSeq(recentEvents, LAMBDA e : calculateSeverity(e, clock) = "critical"))
  IN IF criticalEvents >= 5 \/ totalFatalities >= 200 THEN "critical"
     ELSE IF criticalEvents >= 3 \/ totalFatalities >= 100 THEN "severe"
     ELSE IF criticalEvents >= 1 \/ totalFatalities >= 50 THEN "high"
     ELSE IF Len(recentEvents) >= 10 THEN "elevated"
     ELSE "minimal"

\* new Set(events.map(event => event.location || event.country || 'unknown')).size
activeCountries(events) ==
  Cardinality({ JsOr(JsOr(events[i].location, events[i].country, ""), "unknown", "") :
                i \in DOMAIN events })

criticalAlertCount(events) ==
  Len(SelectSeq(events, LAMBDA event : event.severity \in {"critical", "high"}))

\* getDashboardMetrics once getAllConflictEvents has settled with outcome: an error
\* of that call is not caught; otherwise the metrics object is computed from its list
getDashboardMetrics(outcome, clock) ==
  IF outcome.threw THEN Threw
  ELSE
  LET events == outcome.value
      todayEvents ==
        SelectSeq(events, LAMBDA event : isToday(getEventDate(event), clock))
      yesterdayEvents ==
        SelectSeq(events, LAMBDA event : isYesterday(getEventDate(event), clock))
      totalEventsToday == Len(todayEvents)
      totalFatalitiesToday == sumFatalities(todayEvents)
      totalEventsYesterday == Len(yesterdayEvents)
      totalFatalitiesYesterday == sumFatalities(yesterdayEvents)
      sevenDaysRange == getDateRange(7, clock)
      recentEvents == filterEventsByDateRange(events, sevenDaysRange.start, sevenDaysRange.end)
      activeConflicts == activeCountries(recentEvents)
      previousWeekRange == priorRange(7, clock)
      previousWeekEvents ==
        filterEventsByDateRange(events, previousWeekRange.start, previousWeekRange.end)
      last24HoursRange == getDateRange(1, clock)
      criticalAlerts ==
        criticalAlertCount(
          filterEventsByDateRange(events, last24HoursRange.start, last24HoursRange.end))
      previous24HoursRange == priorRange(1, clock)
      previousCriticalAlerts ==
        criticalAlertCount(
          filterEventsByDateRange(events, previous24HoursRange.start,
                                  previous24HoursRange.end))
  IN [threw |-> FALSE,
      totalEventsToday |-> totalEventsToday,
      totalFatalitiesToday |-> totalFatalitiesToday,
      activeConflicts |-> activeConflicts,
      criticalAlerts |-> criticalAlerts,
      globalThreatLevel |-> calculateGlobalThreatLevel(recentEvents, clock),
      dataLastUpdated |-> clock,
      percentageChanges |->
        [events |-> calculatePercentageChange(totalEventsToday, totalEventsYesterday),
         fatalities |->
           calculatePercentageChange(totalFatalitiesToday, totalFatalitiesYesterday),
         activeConflicts |->
           calculatePercentageChange(activeConflicts, activeCountries(previousWeekEvents)),
         criticalAlerts |->
           calculatePercentageChange(criticalAlerts, previousCriticalAlerts)]]

\* records of today, yesterday, two days ago and last week, with and without the
\* legacy date field
MetricsRecords ==
  { BaseRecord,
    [BaseRecord EXCEPT !.location = "Syria", !.timestamp = Now0 - 780,
                       !.date = Now0 - 780, !.fatalities = 60],
    [BaseRecord EXCEPT !.id = "acled_1", !.source = "ACLED", !.location = "Syria",
                       !.eventType = "Bombing", !.fatalities = 120, !.verified = TRUE,
                       !.date = Now0 - 60],
    [BaseRecord EXCEPT !.location = "UK", !.timestamp = Now0 - 8 * MinutesPerDay],
    [BaseRecord EXCEPT !.id = "acled_2", !.source = "ACLED", !.eventType = "Bombing",
                       !.fatalities = 30, !.verified = TRUE,
                       !.timestamp = Now0 - MinutesPerDay - 780],
    [NoPlaceRecord EXCEPT !.country = "Syria", !.timestamp = NoTime],
    [NoPlaceRecord EXCEPT !.timestamp = Now0 - 60],
    [BaseRecord EXCEPT !.id = "twitter_1", !.source = "Twitter", !.location = "Syria",
                       !.timestamp = Now0 - 750, !.fatalities = 60],
    [BaseRecord EXCEPT !.id = "acled_2", !.source = "ACLED", !.location = "UK",
                       !.eventType = "Bombing", !.fatalities = 30, !.verified = TRUE,
                       !.timestamp = Now0 - MinutesPerDay - 60] }

\* the settled results of a pass: one source with a batch, a batch that makes the
\* pass fail, or no source with an answer
MetricsInputs ==
  { <<Fulfilled(b)>> : b \in UNION { [1..k -> MetricsRecords] : k \in 0..MaxLen } }
  \cup { <<Fulfilled(MistypedBatch)>>, <<Null, Null, Null>> }

\* noon, and half an hour after midnight
MetricsClocks == {Now0, Now0 - 690}

InitMetrics ==
  /\ now \in MetricsClocks
  /\ cache = [k \in {"all_events"} |-> NoEntry]
  /\ sourceStatus = initializeSourceStatus(FALSE)
  /\ isRefreshing = [k \in {"all_events"} |-> 0]
  /\ passes = [p \in PassIds |-> NoPass]
  /\ callers = [c \in Callers |-> IdleCaller]
  /\ lastReturn = NoReturn
  /\ pin \in MetricsInputs
  /\ pout = NotRun

\* getDashboardMetrics on an empty cache: the pass runs and the metrics are computed
\* from what it returns
DashboardMetrics ==
  /\ ~pout.ran
  /\ LET outcome == settleDataFetch(pin, now, NoEntry).outcome IN
     pout' = [ran |-> TRUE, outcome |-> outcome,
              metrics |-> getDashboardMetrics(outcome, now)]
  /\ UNCHANGED <<now, cache, sourceStatus, isRefreshing, passes, callers, lastReturn, pin>>

NextMetrics == DashboardMetrics

SpecMetrics == InitMetrics /\ [][NextMetrics]_vars

(***************************************************************************)
(* The source tasks of one pass, each with its attempts raced against the   *)
(* 15 s timer, settling in any order, and the merge of their results.       *)
(***************************************************************************)
\* what the adapter does when called: it answers in time, fails in time, or answers
\* only after the timer has fired
Answers(batch) == [kind |-> "answer", value |-> batch]

Fails == [kind |-> "error"]

AnswersLate(batch) == [kind |-> "late", value |-> batch]

\* mutant: the attempt waits for the adapter however long it takes
raceOutcomeAwaits(behaviour) ==
  CASE behaviour.kind = "error" -> Rejects("error")
    [] OTHER -> Resolves(behaviour.value)

\* Promise.race([fetchFn(), timer]): the outcome of one attempt
raceOutcome(behaviour) ==
  CASE behaviour.kind = "answer" -> Resolves(behaviour.value)
    [] behaviour.kind = "error" -> Rejects("error")
    [] OTHER -> Rejects("timeout")

raceAll(behaviours) == [i \in DOMAIN behaviours |-> raceOutcome(behaviours[i])]

\* mutant: the results are taken in the order the tasks settled
allSettledByCompletion(results, order) ==
  [i \in 1..Len(order) |-> results[order[i]].result]

\* the array Promise.allSettled resolves to follows dataPromises, whatever the order
\* in which the tasks settled
allSettled(results, order) ==
  [i \in 1..Len(Sources) |-> results[Sources[i]].result]

\* one incident as each source reports it, and a record only a late answer carries
SharedRecord(sourceName) ==
  CASE sourceName = "ACLED" ->
         [BaseRecord EXCEPT !.id = "acled_1", !.source = "ACLED", !.fatalities = 5]
    [] sourceName = "Twitter" -> [BaseRecord EXCEPT !.id = "twitter_1", !.source = "Twitter"]
    [] sourceName = "News" -> BaseRecord
    [] OTHER -> [BaseRecord EXCEPT !.id = "crisis_1", !.source = "Intelligence",
                                   !.verified = TRUE]

LateRecord(sourceName) == [SharedRecord(sourceName) EXCEPT !.location = "Syria"]

\* the adapter answers at once, answers the second call after a late first answer,
\* or is late every time
TaskBehaviours(sourceName) ==
  { <<Answers(<<SharedRecord(sourceName)>>)>>,
    <<AnswersLate(<<LateRecord(sourceName)>>), Answers(<<SharedRecord(sourceName)>>)>>,
    [i \in 1..(maxRetries + 1) |-> AnswersLate(<<LateRecord(sourceName)>>)] }

TaskInputs == { f \in [SourceNames -> UNION {TaskBehaviours(s) : s \in SourceNames}] :
                  \A s \in SourceNames : f[s] \in TaskBehaviours(s) }

Pending == [settled |-> FALSE]

InitTasks ==
  /\ now = Now0
  /\ cache = [k \in {"all_events"} |-> NoEntry]
  /\ sourceStatus = initializeSourceStatus(TRUE)
  /\ isRefreshing = [k \in {"all_events"} |-> 0]
  /\ passes = [p \in PassIds |-> NoPass]
  /\ callers = [c \in Callers |-> IdleCaller]
  /\ lastReturn = NoReturn
  /\ pin \in TaskInputs
  /\ pout = [ran |-> FALSE, results |-> [s \in SourceNames |-> Pending], order |-> <<>>,
             snapshot |-> [taken |-> FALSE]]

\* the fetchWithRetry task of source s returns
TaskSettles(s) ==
  /\ ~pout.ran
  /\ ~pout.results[s].settled
  /\ LET r == fetchWithRetry(raceAll(pin[s])) IN
     /\ sourceStatus' = statusAfterFetch(sourceStatus, s, r, now)
     /\ pout' = [pout EXCEPT !.results[s] = [settled |-> TRUE, result |-> r.result,
                                            calls |-> r.calls],
                             !.order = Append(@, s)]
  /\ UNCHANGED <<now, cache, isRefreshing, passes, callers, lastReturn, pin>>

\* performDataFetch resumes after Promise.allSettled, on an empty cache
Merge ==
  /\ ~pout.ran
  /\ \A s \in SourceNames : pout.results[s].settled
  /\ pout' = [ran |-> TRUE, results |-> pout.results, order |-> pout.order,
              snapshot |-> pout.snapshot,
              outcome |-> settleDataFetch(allSettled(pout.results, pout.order),
                                          now, NoEntry).outcome]
  /\ UNCHANGED <<now, cache, sourceStatus, isRefreshing, passes, callers, lastReturn, pin>>

\* what the holder of a map returned by getSourceStatus reads from it: the map holds
\* the status objects themselves, so each entry shows the object as it is now
readStatus(entries, status) == [s \in DOMAIN entries |-> status[entries[s]]]

\* getSourceStatus, called once: "new Map(this.sourceStatus)" copies the entries of
\* the map, each a reference to the status object of its source; seen records what
\* the caller read from the map when it was returned
getSourceStatus ==
  /\ ~pout.snapshot.taken
  /\ pout' = [pout EXCEPT !.snapshot =
                [taken |-> TRUE, entries |-> [s \in SourceNames |-> s],
                 seen |-> sourceStatus]]
  /\ UNCHANGED <<now, cache, sourceStatus, isRefreshing, passes, callers, lastReturn, pin>>

NextTasks ==
  \/ \E s \in SourceNames : TaskSettles(s)
  \/ Merge
  \/ getSourceStatus

SpecTasks == InitTasks /\ [][NextTasks]_vars

(***************************************************************************)
(* Properties.                                                             *)
(***************************************************************************)
Awaiting == {c \in Callers : callers[c].pc # "idle"}

PassesInUse == {p \in PassIds : passes[p].st # "unused"}

AllSourcesFailed(p) ==
  \A s \in SourceNames :
    \/ passes[p].tasks[s].st = "off"
    \/ (passes[p].tasks[s].st = "done" /\ passes[p].tasks[s].result.isNull)

\* C1: single-flight.  While calls of getAllEvents are waiting there is exactly one set
\* of source fetches; a call that arrives while a refresh of the key is in progress
\* starts no fetch, waits for that refresh and returns its result.
C1_SingleFlight ==
  /\ [](Awaiting # {} => Cardinality(PassesInUse) = 1)
  /\ [](\A c \in Awaiting : passes[callers[c].pass].st # "unused")
  /\ [][\A c \in Callers :
          /\ (callers[c].pc = "idle" /\ callers'[c].pc # "idle"
                /\ isRefreshing["all_events"] # 0)
             => /\ passes' = passes
                /\ callers'[c].pc = "awaitJoin"
                /\ callers'[c].pass = isRefreshing["all_events"]
          /\ (callers[c].pc = "awaitJoin" /\ callers'[c].pc = "idle")
             => lastReturn'.outcome = passes[callers[c].pass].outcome]_vars

\* two forced calls in flight at once, the second waiting on the refresh of the first
C1_Witness ==
  \E c1, c2 \in Callers :
    /\ callers[c1].pc = "awaitOwn" /\ callers[c1].forceRefresh
    /\ callers[c2].pc = "awaitJoin" /\ callers[c2].forceRefresh
    /\ callers[c1].pass = callers[c2].pass
    /\ passes[callers[c1].pass].st = "fetching"

\* C2: stale-serve.  A forced refresh in which every source failed, started when a
\* cache entry existed, returns the data of that entry (not an empty list).
C2_StaleServe ==
  \A c \in Callers :
    (/\ callers[c].pc = "awaitOwn" /\ callers[c].forceRefresh
     /\ passes[callers[c].pass].st = "done"
     /\ AllSourcesFailed(callers[c].pass)
     /\ passes[callers[c].pass].cached.present)
    => passes[callers[c].pass].outcome = Returned(passes[callers[c].pass].cached.data)

CacheFresh ==
  /\ cache["all_events"].present
  /\ now - cache["all_events"].timestamp < cacheTTL

\* a step in which a call returned from the cache
HitStep == lastReturn'.hit /\ lastReturn'.intact /\ lastReturn' # lastReturn

\* C3: idempotence.  A call without forceRefresh that finds a non-expired entry neither
\* waits nor starts a fetch; a cache hit returns the cached list and calls no source; a
\* hit that follows a return with no cache change in between returns the same list.
C3_Idempotent ==
  /\ [][\A c \in Callers :
          (callers[c].pc = "idle" /\ callers'[c].pc # "idle" /\ CacheFresh)
          => callers'[c].forceRefresh]_vars
  /\ [][HitStep
          => /\ CacheFresh
             /\ lastReturn'.outcome = Returned(cache["all_events"].data)
             /\ passes' = passes /\ sourceStatus' = sourceStatus /\ cache' = cache]_vars
  /\ [][(lastReturn.intact /\ HitStep)
          => lastReturn'.outcome = lastReturn.outcome]_vars
  /\ [](\A p \in PassIds :
          (passes[p].st = "fetching" /\ passes[p].cached.present
             /\ now - passes[p].cached.timestamp < cacheTTL /\ cache["all_events"] = passes[p].cached)
          => \E c \in Callers : callers[c].pc = "awaitOwn" /\ callers[c].pass = p
                                /\ callers[c].forceRefresh)

\* a second hit in a row, minutes after the entry was written, on a non-empty list
C3_Witness ==
  /\ lastReturn.hit /\ lastReturn.intact /\ lastReturn.repeat
  /\ lastReturn.outcome.value # <<>>
  /\ cache["all_events"].present
  /\ now > cache["all_events"].timestamp
  /\ \A p \in PassIds : passes[p].st = "unused"

\* C4: getAllEvents never throws.  Every refresh and every call yields a list, whatever
\* the sources did; with every source failed and no cache entry the list is empty.
C4_NeverThrows ==
  /\ ~lastReturn.outcome.threw
  /\ \A p \in PassIds :
       passes[p].st = "done"
       => /\ ~passes[p].outcome.threw
          /\ (AllSourcesFailed(p) /\ ~passes[p].cached.present)
             => passes[p].outcome = Returned(<<>>)

\* every source failed (errors or timeouts), nothing was cached, the call got []
C4_Witness ==
  \E p \in PassIds :
    /\ passes[p].st = "done"
    /\ AllSourcesFailed(p)
    /\ ~passes[p].cached.present
    /\ passes[p].outcome = Returned(<<>>)

\* the first call of the adapter that succeeds, 0 if none does
FirstSuccess(outcomes) ==
  IF \E i \in DOMAIN outcomes : outcomes[i].ok
  THEN CHOOSE i \in DOMAIN outcomes : outcomes[i].ok /\ \A j \in 1..(i - 1) : ~outcomes[j].ok
  ELSE 0

\* C6: one call of the retry executor calls the operation at most maxRetries times and
\* stops at the first success; after maxRetries failed attempts it returns null (it
\* never throws) and the error count of the source is one more than before.
C6_RetryBound ==
  pout.ran =>
    LET first == FirstSuccess(pin.outcomes)
        r == pout.r
    IN /\ r.calls <= maxRetries
       /\ (first \in 1..maxRetries)
          => r.calls = first /\ r.result = Fulfilled(pin.outcomes[first].value)
       /\ (first = 0 \/ first > maxRetries)
          => /\ r.calls = maxRetries
             /\ r.result = Null
             /\ sourceStatus[pin.source].errorCount = pin.before.errorCount + 1

\* the adapter failed maxRetries times and would have answered the next call
C6_Witness ==
  /\ pout.ran
  /\ FirstSuccess(pin.outcomes) = maxRetries + 1
  /\ pout.r.result = Null
  /\ pout.r.calls = maxRetries
  /\ pin.before.errorCount > 0
  /\ sourceStatus[pin.source].errorCount = pin.before.errorCount + 1

\* C7: when an attempt succeeds the error count of the source becomes 0 and its event
\* count the number of items returned, whatever failures came before.
C7_SuccessResets ==
  pout.ran =>
    LET first == FirstSuccess(pin.outcomes) IN
    (first \in 1..maxRetries)
    => /\ sourceStatus[pin.source].errorCount = 0
       /\ sourceStatus[pin.source].eventCount = Len(pin.outcomes[first].value)
       /\ sourceStatus[pin.source].lastFetch = now

\* a source with earlier exhausted calls succeeds on its last attempt with some items
C7_Witness ==
  /\ pout.ran
  /\ FirstSuccess(pin.outcomes) = maxRetries
  /\ pin.before.errorCount > 0
  /\ Len(pin.outcomes[maxRetries].value) > 0
  /\ sourceStatus[pin.source].errorCount = 0
  /\ sourceStatus[pin.source].eventCount = Len(pin.outcomes[maxRetries].value)

\* the records of the pass in the order they are processed, and its output
PipeRecords == Flatten(pin)

PipeOutput == pout.outcome.value

KeyOf(e) == dedupeKey(e.location, e.coordinates, e.timestamp, e.eventType)

DayOf(timestamp) == timestamp \div MinutesPerDay

DayKeyOf(e) ==
  <<e.location, toFixed2(e.coordinates.lat), toFixed2(e.coordinates.lng),
    DayOf(e.timestamp), e.eventType>>

Represented(event) == \E k \in DOMAIN PipeOutput : KeyOf(PipeOutput[k]) = eventKey(event, now)

NumericCoordinates == \A i \in DOMAIN PipeRecords : ~PipeRecords[i].latIsString

NoPlaceName(event) == event.location = "" /\ event.country = "" /\ event.region = ""

ZeroCoordinates(event) == validateCoordinates(event) = [lat |-> 0, lng |-> 0]

HasEventType(event) == event.eventType # "" \/ event.event_type # ""

\* C8: records of one pass with the same location, coordinates to 2 decimals, day and
\* category give one output record, whatever their ids, sources and times of day.
C8_DedupByDay ==
  pout.ran =>
    \A i, j \in DOMAIN PipeOutput :
      DayKeyOf(PipeOutput[i]) = DayKeyOf(PipeOutput[j]) => i = j

Resolvable(event) == ~NoPlaceName(event) \/ ~ZeroCoordinates(event)

SortedByTimeThenSeverity(events) ==
  \A i, j \in DOMAIN events : i < j => compareEvents(events[i], events[j]) <= 0

\* C5: when ACLED returns its 5 records, News fails after 3 attempts and Intelligence
\* returns 3 records, one of them on the location, day and category of an ACLED record,
\* the call returns 5+3-1=7 events sorted by time then severity, the error count of
\* News is one more than before and those of ACLED and Intelligence are 0.
C5_EndToEnd ==
  \A p \in PassIds :
    (/\ passes[p].st = "done"
     /\ passes[p].tasks["ACLED"].result = Fulfilled(AcledBatch)
     /\ passes[p].tasks["News"].st = "done" /\ passes[p].tasks["News"].result = Null
     /\ passes[p].tasks["Intelligence"].result = Fulfilled(IntelligenceBatch))
    => /\ ~passes[p].outcome.threw
       /\ Len(passes[p].outcome.value) = 7
       /\ SortedByTimeThenSeverity(passes[p].outcome.value)
       /\ sourceStatus["News"].errorCount = passes[p].errorsBefore["News"] + 1
       /\ sourceStatus["ACLED"].errorCount = 0
       /\ sourceStatus["Intelligence"].errorCount = 0

SeverityLevels == {"low", "medium", "high", "critical"}

\* the settled results with the upstream severity of every record replaced by severity
WithSeverity(results, severity) ==
  [i \in DOMAIN results |->
     IF results[i].isNull THEN results[i]
     ELSE Fulfilled([k \in DOMAIN results[i].value |->
                       [results[i].value[k] EXCEPT !.severity = severity]])]

SeveritiesOf(events) == [k \in DOMAIN events |-> events[k].severity]

\* C11: the severity of every output event is the one the classifier computes from the
\* record it was built from, at the time of the pass; it does not depend on the severity
\* supplied upstream: the same pass on records that differ only in upstream severity
\* gives events of the same severities.
C11_SeverityRecomputed ==
  pout.ran =>
    /\ \A k \in DOMAIN PipeOutput :
         \E i \in DOMAIN PipeRecords :
           /\ PipeOutput[k] = normalizedEvent(PipeRecords[i], now)
           /\ PipeOutput[k].severity = calculateSeverity(PipeRecords[i], now)
    /\ \A severity \in SeverityLevels :
         SeveritiesOf(settleDataFetch(WithSeverity(pin, severity), now, NoEntry).outcome.value)
           = SeveritiesOf(PipeOutput)

\* a record delivered as critical comes out as medium, one delivered as low as critical
C11_Witness ==
  /\ pout.ran
  /\ Len(PipeRecords) = 2 /\ Len(PipeOutput) = 2
  /\ \E i, j \in DOMAIN PipeRecords :
        /\ PipeRecords[i].severity = "critical" /\ PipeRecords[j].severity = "low"
        /\ \E k, l \in DOMAIN PipeOutput :
              /\ PipeOutput[k].id = PipeRecords[i].id /\ PipeOutput[k].severity = "medium"
              /\ PipeOutput[l].id = PipeRecords[j].id /\ PipeOutput[l].severity = "critical"
              /\ PipeRecords[i].id # PipeRecords[j].id

\* C12: the list of a pass is ordered by timestamp, latest first, and among events of
\* equal timestamp by severity tier, critical > high > medium > low.
C12_SortOrder ==
  pout.ran =>
    \A i, j \in DOMAIN PipeOutput :
      i < j =>
        \/ PipeOutput[i].timestamp > PipeOutput[j].timestamp
        \/ /\ PipeOutput[i].timestamp = PipeOutput[j].timestamp
           /\ severityOrder(PipeOutput[i].severity) >= severityOrder(PipeOutput[j].severity)

\* three events delivered earliest first and, at one time, lowest severity first
C12_Witness ==
  /\ pout.ran
  /\ Len(PipeRecords) = 3 /\ Len(PipeOutput) = 3
  /\ PipeRecords[1].timestamp < PipeRecords[2].timestamp
  /\ PipeRecords[2].timestamp = PipeRecords[3].timestamp
  /\ PipeOutput[1].severity = "critical" /\ PipeOutput[2].severity = "medium"
  /\ PipeOutput[1] = normalizedEvent(PipeRecords[3], now)
  /\ PipeOutput[2] = normalizedEvent(PipeRecords[2], now)
  /\ PipeOutput[3] = normalizedEvent(PipeRecords[1], now)

\* the place of an output event among the records of the pass: its first occurrence
FirstIndexOf(e) ==
  CHOOSE i \in DOMAIN PipeRecords :
    /\ normalizedEvent(PipeRecords[i], now) = e
    /\ \A j \in 1..(i - 1) : normalizedEvent(PipeRecords[j], now) # e

\* C13: events of the same timestamp and the same severity keep, in the sorted list, the
\* order they had after deduplication.
C13_SortStable ==
  pout.ran =>
    \A i, j \in DOMAIN PipeOutput :
      (/\ i < j
       /\ PipeOutput[i].timestamp = PipeOutput[j].timestamp
       /\ PipeOutput[i].severity = PipeOutput[j].severity)
      => FirstIndexOf(PipeOutput[i]) < FirstIndexOf(PipeOutput[j])

\* two events of one time and severity around a later one: they keep their order
C13_Witness ==
  /\ pout.ran
  /\ Len(PipeRecords) = 3 /\ Len(PipeOutput) = 3
  /\ PipeRecords[1].timestamp = PipeRecords[3].timestamp
  /\ PipeRecords[1].fatalities = PipeRecords[3].fatalities
  /\ PipeRecords[1].location # PipeRecords[3].location
  /\ PipeRecords[2].timestamp > PipeRecords[1].timestamp
  /\ PipeOutput[2] = normalizedEvent(PipeRecords[1], now)
  /\ PipeOutput[3] = normalizedEvent(PipeRecords[3], now)

\* C14: with category, source, verification flag and recency fixed, a higher fatality
\* count never gives a lower severity tier.
C14_SeverityMonotone ==
  pout.ran => severityOrder(pout.higher) >= severityOrder(pout.lower)

\* an unverified rally without fatalities is low; with 120 fatalities it is high
C14_Witness ==
  /\ pout.ran
  /\ pin.event.fatalities = 0 /\ pin.more = 120
  /\ pin.event.eventType = "Rally" /\ ~pin.event.verified
  /\ pout.lower = "low"
  /\ pout.higher = "high"

\* the fraction r is the number n
IsNumber(r, n) == r.den # 0 /\ r.num = n * r.den

\* C15: calculatePercentageChange(current, previous) is 100 for previous = 0 and
\* current > 0, 0 for both 0, and otherwise (current - previous) / previous * 100; so
\* (5,0) gives 100, (0,0) gives 0, (8,10) gives -20; it never divides by zero.
C15_PercentageChange ==
  pout.ran =>
    /\ pout.r.den # 0
    /\ (pin.previous = 0 /\ pin.current > 0) => IsNumber(pout.r, 100)
    /\ (pin.previous = 0 /\ pin.current = 0) => IsNumber(pout.r, 0)
    /\ pin.previous # 0
       => pout.r.num * pin.previous = (pin.current - pin.previous) * 100 * pout.r.den
    /\ (pin.current = 5 /\ pin.previous = 0) => IsNumber(pout.r, 100)
    /\ (pin.current = 8 /\ pin.previous = 10) => IsNumber(pout.r, -20)

\* 8 after 10 is a change of -20 per cent
C15_Witness ==
  /\ pout.ran
  /\ pin.current = 8 /\ pin.previous = 10
  /\ IsNumber(pout.r, -20)

\* the cached list of critical events is younger than the TTL
CriticalFresh ==
  /\ cache["critical_events"].present
  /\ now - cache["critical_events"].timestamp < cacheTTL

CriticalCall == \E c \in Callers : getCriticalEvents(c)

C17_ClearDropsAll ==
  [][ clearCache
        => /\ \A k \in DOMAIN cache : ~cache'[k].present
           /\ \A k \in DOMAIN isRefreshing : isRefreshing'[k] = 0 ]_vars

\* the calls of getCriticalEvents whose fetch is in flight
CriticalInFlight == {c \in Callers : callers[c].pc = "awaitCritical"}

\* C18: at any time at most one refresh of the all-events key and at most one
\* refresh of the critical-events key is in flight
C18_OneRefreshPerKey ==
  /\ Cardinality(PassesInUse) <= 1
  /\ Cardinality(CriticalInFlight) <= 1

\* every source task of pass p has settled
TasksSettled(p) == \A s \in SourceNames : passes[p].tasks[s].st \in {"off", "done"}

\* the list is what normalisation, deduplication and sort make of all the records the
\* sources of pass p delivered: sorted, one event per key, no valid record left out
CompleteFor(p, events) ==
  /\ Returned(events) = settleDataFetch(settledResults(p), now, passes[p].cached).outcome
  /\ SortedByTimeThenSeverity(events)
  /\ \A i, j \in DOMAIN events : KeyOf(events[i]) = KeyOf(events[j]) => i = j
  /\ \A s \in SourceNames :
       (passes[p].tasks[s].st = "done" /\ ~passes[p].tasks[s].result.isNull)
       => \A i \in DOMAIN passes[p].tasks[s].result.value :
            LET event == passes[p].tasks[s].result.value[i] IN
            (Resolvable(event) /\ HasEventType(event))
            => \E k \in DOMAIN events : KeyOf(events[k]) = eventKey(event, now)

\* C19: a call made while a refresh is running returns the list of the cache entry as
\* it stands or waits for that refresh and returns its result; the result of a refresh
\* and the entry it writes are set in one step, after all its sources have settled,
\* to the complete list with the time of the write and the number of sources; no other
\* step writes the entry
C19_WholeEntry ==
  /\ [][(HitStep /\ isRefreshing["all_events"] # 0)
          => /\ lastReturn'.outcome = Returned(cache["all_events"].data)
             /\ cache' = cache]_vars
  /\ [][\A c \in Callers :
          /\ (callers[c].pc = "idle" /\ callers'[c].pc # "idle"
                /\ isRefreshing["all_events"] # 0)
             => /\ callers'[c].pc = "awaitJoin"
                /\ callers'[c].pass = isRefreshing["all_events"]
          /\ (callers[c].pc = "awaitJoin" /\ callers'[c].pc = "idle")
             => /\ passes[callers[c].pass].st = "done"
                /\ lastReturn'.outcome = passes[callers[c].pass].outcome]_vars
  /\ [][\A p \in PassIds :
          (passes[p].st = "fetching" /\ passes'[p].st = "done")
          => /\ TasksSettled(p)
             /\ CompleteFor(p, passes'[p].outcome.value)
             /\ cache'["all_events"].present
             /\ cache'["all_events"].data = passes'[p].outcome.value
             /\ cache'["all_events"].timestamp = now
             /\ cache'["all_events"].sources = Len(EnabledSeq)]_vars
  /\ [][(cache'["all_events"] # cache["all_events"] /\ cache'["all_events"].present)
          => \E p \in PassIds :
               /\ passes[p].st = "fetching" /\ passes'[p].st = "done"
               /\ cache'["all_events"].data = passes'[p].outcome.value]_vars

\* a call made during a refresh was served the list of the entry written before
C19_Witness ==
  /\ lastReturn.hit /\ lastReturn.intact
  /\ lastReturn.outcome.value # <<>>
  /\ isRefreshing["all_events"] # 0
  /\ passes[isRefreshing["all_events"]].st = "fetching"

AllZero(metrics) ==
  /\ metrics.totalEventsToday = 0
  /\ metrics.totalFatalitiesToday = 0
  /\ metrics.activeConflicts = 0
  /\ metrics.criticalAlerts = 0
  /\ IsNumber(metrics.percentageChanges.events, 0)
  /\ IsNumber(metrics.percentageChanges.fatalities, 0)
  /\ IsNumber(metrics.percentageChanges.activeConflicts, 0)
  /\ IsNumber(metrics.percentageChanges.criticalAlerts, 0)

\* C20: getDashboardMetrics returns a metrics object and does not throw, whatever the
\* pass it waits for ran into; when the list of events is empty every count and every
\* percentage change of the object is 0 and its global threat level is minimal
C20_MetricsAlways ==
  pout.ran =>
    /\ ~pout.metrics.threw
    /\ pout.metrics.globalThreatLevel
         \in {"critical", "severe", "high", "elevated", "minimal"}
    /\ pout.outcome.value = <<>>
         => (AllZero(pout.metrics) /\ pout.metrics.globalThreatLevel = "minimal")

\* the metrics after a total outage: no source answered
C20_Witness ==
  /\ pout.ran
  /\ pin = <<Null, Null, Null>>
  /\ pout.outcome.value = <<>>
  /\ AllZero(pout.metrics)

\* C21: a pass goes on to normalisation, deduplication and merge only when each of its
\* source tasks has settled, with a batch or with its retries exhausted (the error
\* count of the source is then one more than when the pass started), and no other
\* pass on the key is under way then or at any other time
C21_MergeAfterAllSettled ==
  /\ [][\A p \in PassIds :
          (passes[p].st = "fetching" /\ passes'[p].st # "fetching")
          => /\ passes'[p].st = "done"
             /\ \A s \in SourceNames :
                  IF sourceStatus[s].enabled
                  THEN /\ passes[p].tasks[s].st = "done"
                       /\ passes[p].tasks[s].result.isNull
                            => sourceStatus[s].errorCount = passes[p].errorsBefore[s] + 1
                  ELSE passes[p].tasks[s].st = "off"
             /\ \A q \in PassIds \ {p} : passes[q].st = "unused"]_vars
  /\ [](Cardinality({p \in PassIds : passes[p].st # "unused"}) <= 1)

\* a pass has merged after one source gave up and another delivered
C21_Witness ==
  \E p \in PassIds :
    /\ passes[p].st = "done"
    /\ passes[p].tasks["News"].st = "done" /\ passes[p].tasks["News"].result.isNull
    /\ ~passes[p].tasks["Intelligence"].result.isNull
    /\ passes[p].outcome.value # <<>>

\* the index of the first call the adapter answers in time, 0 if there is none
FirstInTime(behaviours) ==
  IF \E i \in DOMAIN behaviours : behaviours[i].kind = "answer"
  THEN CHOOSE i \in DOMAIN behaviours :
         /\ behaviours[i].kind = "answer"
         /\ \A j \in 1..(i - 1) : behaviours[j].kind # "answer"
  ELSE 0

C23_EveryAttemptCounted ==
  pout.ran =>
    LET first == FirstSuccess(pin.outcomes) IN
    /\ (first \in 1..maxRetries) => sourceStatus[pin.source].errorCount = 0
    /\ (first = 0 \/ first > maxRetries)
       => sourceStatus[pin.source].errorCount = pin.before.errorCount + pout.r.calls

\* C24: the event count of a source is the number of records of its last successful
\* fetch: a successful call sets it to the number of records returned, a call whose
\* attempts all failed leaves it as it was
C24_EventCountOfLastSuccess ==
  pout.ran =>
    LET first == FirstSuccess(pin.outcomes) IN
    /\ (first \in 1..maxRetries)
       => sourceStatus[pin.source].eventCount = Len(pin.outcomes[first].value)
    /\ (first = 0 \/ first > maxRetries)
       => sourceStatus[pin.source].eventCount = pin.before.eventCount

\* C25: a pass in which every source failed writes no cache entry: the entry of the
\* key is after the pass what it was before, so no call finds a fresh entry that a
\* failed pass produced
C25_NoEntryFromFailedPass ==
  [][\A p \in PassIds :
       (passes[p].st = "fetching" /\ passes'[p].st = "done" /\ AllSourcesFailed(p))
       => cache'["all_events"] = cache["all_events"]]_vars

\* the sources of pass p whose fetch delivered a batch
Succeeded(p) ==
  {s \in SourceNames : passes[p].tasks[s].st = "done" /\ ~passes[p].tasks[s].result.isNull}

\* C26: the source count of the entry a pass writes is the number of its sources whose
\* fetch succeeded; a source that exhausted its retries is not counted
C26_SourcesThatSucceeded ==
  [][\A p \in PassIds :
       (passes[p].st = "fetching" /\ passes'[p].st = "done"
          /\ cache'["all_events"] # cache["all_events"])
       => cache'["all_events"].sources = Cardinality(Succeeded(p))]_vars

\* C27: the call sleeps once after each failed attempt but the last one it makes, and
\* never after a success: k - 1 times when attempt k succeeds, maxRetries - 1 times
\* when all fail; the k-th sleep lasts 1000 * 2^k ms plus the jitter drawn, which is
\* in [0, 1000): at least 2000 ms, then at least 4000 ms
C27_Backoff ==
  pout.ran =>
    LET first == FirstSuccess(pin.outcomes)
        delays == pout.r.delays
    IN /\ (first \in 1..maxRetries) => Len(delays) = first - 1
       /\ (first = 0 \/ first > maxRetries) => Len(delays) = maxRetries - 1
       /\ \A k \in DOMAIN delays :
            /\ delays[k] = 1000 * (2 ^ k) + pin.jitters[k]
            /\ delays[k] >= 1000 * (2 ^ k)
            /\ delays[k] < 1000 * (2 ^ k) + 1000
       /\ Len(delays) >= 1 => delays[1] >= 2000
       /\ Len(delays) >= 2 => delays[2] >= 4000

\* every attempt failed: two sleeps, of 2999 ms and of 4500 ms
C27_Witness ==
  /\ pout.ran
  /\ pout.r.result = Null
  /\ pout.r.calls = maxRetries
  /\ pout.r.delays = <<2999, 4500>>

\* the list of the pass before it is sorted
PipeMerged ==
  forEachEvent(PipeRecords, now,
               [thrown |-> FALSE, eventIds |-> {}, allEvents |-> <<>>]).allEvents

\* record i is valid and the first valid record of the pass with its key
FirstOfKey(i) ==
  /\ IsValidCore(PipeRecords[i])
  /\ \A j \in 1..(i - 1) :
       IsValidCore(PipeRecords[j])
       => eventKey(PipeRecords[j], now) # eventKey(PipeRecords[i], now)

\* C28: in a pass whose records have numeric coordinates, each event of the list is the
\* normalised form of the first record with its key, with no field of a later record
\* of that key; before the sort the events stand in the order of those first records,
\* one per key; the sort only reorders them
C28_FirstSeenWins ==
  (pout.ran /\ NumericCoordinates) =>
    /\ Len(PipeMerged) = Cardinality({i \in DOMAIN PipeRecords : FirstOfKey(i)})
    /\ \A k \in DOMAIN PipeMerged :
         \E i \in DOMAIN PipeRecords :
           /\ FirstOfKey(i)
           /\ PipeMerged[k] = normalizedEvent(PipeRecords[i], now)
           /\ Cardinality({j \in 1..i : FirstOfKey(j)}) = k
    /\ Len(PipeOutput) = Len(PipeMerged)
    /\ \A k \in DOMAIN PipeMerged : \E n \in DOMAIN PipeOutput : PipeOutput[n] = PipeMerged[k]

\* two records of one key that differ in id, source and severity: the first is kept
C28_Witness ==
  /\ pout.ran
  /\ Len(PipeRecords) = 2
  /\ eventKey(PipeRecords[1], now) = eventKey(PipeRecords[2], now)
  /\ PipeRecords[1].id = "acled_1" /\ PipeRecords[2].id = "news_1"
  /\ Len(PipeOutput) = 1
  /\ PipeOutput[1].id = "acled_1" /\ PipeOutput[1].source = "ACLED"

\* what each source task returns, read off the adapters' behaviour alone
ReturnedBy(sourceName) == fetchWithRetry(raceAll(pin[sourceName])).result

\* the sources that returned a batch, by their place in the source order
Delivering == {i \in 1..Len(Sources) : ReturnedBy(Sources[i]) # Null}

\* C29: the outcome of a pass is determined by what the sources return, whatever the
\* order in which their tasks settled, and the one event kept for the incident several
\* sources report is the record of the earliest-listed source that returned it
C29_SourceOrderDecides ==
  pout.ran =>
    /\ pout.outcome =
         settleDataFetch([i \in 1..Len(Sources) |-> ReturnedBy(Sources[i])],
                         now, NoEntry).outcome
    /\ ~pout.outcome.threw
    /\ Len(pout.outcome.value) = IF Delivering = {} THEN 0 ELSE 1
    /\ \A n \in DOMAIN pout.outcome.value :
         \E i \in Delivering :
           /\ \A j \in Delivering : i <= j
           /\ pout.outcome.value[n].id = SharedRecord(Sources[i]).id
           /\ pout.outcome.value[n].source = SharedRecord(Sources[i]).source

\* the tasks settled in the reverse of the source order, every source returned the
\* incident, and the ACLED record is the one kept
C29_Witness ==
  /\ pout.ran
  /\ pout.order = <<"Intelligence", "News", "Twitter", "ACLED">>
  /\ Delivering = 1..Len(Sources)
  /\ Len(pout.outcome.value) = 1
  /\ pout.outcome.value[1].id = "acled_1"

\* a place field as the list shows it: trimmed, with the known variants renamed
PlaceShown(field) == normalizeLocationName(trim(field))

\* C30: the one record of the pass is listed under its place name when it has one;
\* under its country when it has no place name; under its region when it has neither;
\* under the macro-region of its coordinates when it has no place field and its
\* coordinates (out-of-range ones count as the placeholder) are not (0,0); and it is
\* not listed when it has no place field and its coordinates are (0,0)
C30_LocationPriority ==
  pout.ran =>
    LET event == PipeRecords[1] IN
    /\ event.location # ""
       => Len(PipeOutput) = 1 /\ PipeOutput[1].location = PlaceShown(event.location)
    /\ (event.location = "" /\ event.country # "")
       => Len(PipeOutput) = 1 /\ PipeOutput[1].location = PlaceShown(event.country)
    /\ (event.location = "" /\ event.country = "" /\ event.region # "")
       => Len(PipeOutput) = 1 /\ PipeOutput[1].location = PlaceShown(event.region)
    /\ (NoPlaceName(event) /\ ~ZeroCoordinates(event))
       => /\ Len(PipeOutput) = 1
          /\ PipeOutput[1].location =
               getLocationFromCoordinates(event.coordinates.lat, event.coordinates.lng)
    /\ (NoPlaceName(event) /\ ZeroCoordinates(event)) => PipeOutput = <<>>

\* a record with a place name, a country, a region and coordinates in another
\* macro-region is listed under its place name
C30_Witness ==
  /\ pout.ran
  /\ PipeRecords[1].location = "UK"
  /\ PipeRecords[1].country = "Syria"
  /\ PipeRecords[1].region = "Middle East"
  /\ PipeRecords[1].coordinates = [lat |-> 48593, lng |-> 37996]
  /\ Len(PipeOutput) = 1
  /\ PipeOutput[1].location = "United Kingdom"

\* the timestamp a record is to be listed with at the instant of the pass
TimestampShown(event) ==
  IF event.timestamp = NoTime /\ event.date = NoTime THEN now
  ELSE IF event.timestamp = BadTime THEN now
  ELSE IF event.timestamp > now THEN now
  ELSE event.timestamp

\* C31: every event of the list has an instant as its timestamp, not later than the
\* instant of the pass; in a pass whose records have numeric coordinates the first
\* record of each key is listed with the instant of the pass when its timestamp is
\* missing, unreadable or in the future, and with its own timestamp otherwise
C31_TimestampNotLater ==
  pout.ran =>
    /\ \A n \in DOMAIN PipeOutput :
         PipeOutput[n].timestamp >= 0 /\ PipeOutput[n].timestamp <= now
    /\ NumericCoordinates =>
         \A i \in DOMAIN PipeRecords :
           FirstOfKey(i) =>
             \E n \in DOMAIN PipeOutput :
               /\ PipeOutput[n].id = PipeRecords[i].id
               /\ PipeOutput[n].location = validateAndNormalizeLocation(PipeRecords[i])
               /\ PipeOutput[n].timestamp = TimestampShown(PipeRecords[i])

\* a record dated in the future and a record without a timestamp: both take the
\* instant of the pass, fall under one key and give one event with that instant
C31_Witness ==
  /\ pout.ran
  /\ Len(PipeRecords) = 2
  /\ PipeRecords[1].timestamp > now
  /\ PipeRecords[2].timestamp = NoTime
  /\ Len(PipeOutput) = 1
  /\ PipeOutput[1].timestamp = now

\* the values of the EventType enumeration
EventType ==
  { "Battle", "Bombing", "Violence against civilians", "Cyber attack",
    "Humanitarian crisis", "Other", "Armed clash", "Attack", "Airstrike",
    "Drone strike", "Protest", "Riot", "Strategic development" }

\* C32: every event of the list carries a category of the EventType enumeration, and a
\* record whose category matches no mapping is listed under "Other"
C32_CategoryInEnumeration ==
  pout.ran =>
    /\ \A n \in DOMAIN PipeOutput : PipeOutput[n].eventType \in EventType
    /\ NumericCoordinates =>
         \A i \in DOMAIN PipeRecords :
           (FirstOfKey(i) /\ PipeRecords[i].eventType = "Rally")
           => \E n \in DOMAIN PipeOutput :
                PipeOutput[n].id = PipeRecords[i].id /\ PipeOutput[n].eventType = "Other"

\* the events of the list whose timestamp lies in the 24 hours before the call
LastDayEvents ==
  SelectSeq(pout.outcome.value,
            LAMBDA e : e.timestamp > now - MinutesPerDay /\ e.timestamp <= now)

\* the level implied by a count of critical events, by a fatality total, and the
\* more critical of two levels
LevelRank(level) ==
  CASE level = "minimal" -> 0 [] level = "elevated" -> 1 [] level = "high" -> 2
    [] level = "severe" -> 3 [] OTHER -> 4

LevelByCount(n) ==
  IF n >= 5 THEN "critical" ELSE IF n >= 3 THEN "severe" ELSE IF n >= 1 THEN "high"
  ELSE "minimal"

LevelByFatalities(n) ==
  IF n >= 200 THEN "critical" ELSE IF n >= 100 THEN "severe" ELSE IF n >= 50 THEN "high"
  ELSE "minimal"

MoreCritical(a, b) == IF LevelRank(a) >= LevelRank(b) THEN a ELSE b

\* C33: the threat level of the metrics is the more critical of the level by the
\* number of critical events and the level by the fatality total of the events of the
\* last 24 hours; when neither triggers it is "elevated" from 10 such events on and
\* "minimal" below
C33_ThreatLevelOfLastDay ==
  (pout.ran /\ ~pout.outcome.threw) =>
    LET criticalEvents ==
          Len(SelectSeq(LastDayEvents, LAMBDA e : calculateSeverity(e, now) = "critical"))
        byRule == MoreCritical(LevelByCount(criticalEvents),
                               LevelByFatalities(sumFatalities(LastDayEvents)))
    IN pout.metrics.globalThreatLevel =
         IF byRule # "minimal" THEN byRule
         ELSE IF Len(LastDayEvents) >= 10 THEN "elevated"
         ELSE "minimal"

\* C34: the score of the classified event lies between 10 and 100; its tier is critical
\* from 75 on, high from 55 to 74, medium from 35 to 54 and low below 35; and an event
\* without fatalities still gets fatality points
C34_ScoreBounded ==
  pout.ran =>
    LET score == severityScore(pin.event, now) IN
    /\ score >= 10 /\ score <= 100
    /\ pout.lower = "critical" <=> score >= 75
    /\ pout.lower = "high" <=> (score >= 55 /\ score < 75)
    /\ pout.lower = "medium" <=> (score >= 35 /\ score < 55)
    /\ pout.lower = "low" <=> score < 35
    /\ pin.event.fatalities = 0 => FatalityScore(pin.event.fatalities) > 0

\* the event with the least of everything scores 10 and is low; with 120 fatalities
\* it scores 45 and is medium
C34_Witness ==
  /\ pout.ran
  /\ pin.event.fatalities = 0 /\ pin.more = 120
  /\ severityScore(pin.event, now) = 10
  /\ pout.lower = "low"
  /\ pout.higher = "medium"

\* the events of the list that are at most age minutes old at the call
EventsWithin(age) ==
  SelectSeq(pout.outcome.value,
            LAMBDA e : now - e.timestamp >= 0 /\ now - e.timestamp <= age)

\* C35: the windows of the metrics are measured from the instant of the call: the
\* critical alerts are the high and critical events at most 24 hours old, and the
\* active conflicts are the places of the events at most 7 days old
C35_WindowsFromNow ==
  (pout.ran /\ ~pout.outcome.threw) =>
    /\ pout.metrics.criticalAlerts = criticalAlertCount(EventsWithin(MinutesPerDay))
    /\ pout.metrics.activeConflicts = activeCountries(EventsWithin(7 * MinutesPerDay))

\* the event passes the filter of the range
InRange(event, range) ==
  filterEventsByDateRange(<<event>>, range.start, range.end) # <<>>

\* C36: no event of the list lies both in the range of the critical alerts and in the
\* range they are compared with, nor both in the range of the active conflicts and in
\* the range they are compared with
C36_WindowsDisjoint ==
  (pout.ran /\ ~pout.outcome.threw) =>
    \A n \in DOMAIN pout.outcome.value :
      \A days \in {1, 7} :
        ~ /\ InRange(pout.outcome.value[n], getDateRange(days, now))
          /\ InRange(pout.outcome.value[n], priorRange(days, now))

\* C37: what is read from a map that getSourceStatus returned stays what it was when
\* the map was returned, whatever source tasks have settled since, and the map holds
\* the sources of the constructor
C37_StatusSnapshot ==
  pout.snapshot.taken =>
    /\ DOMAIN pout.snapshot.entries = SourceNames
    /\ \A s \in SourceNames :
         LET read == readStatus(pout.snapshot.entries, sourceStatus)[s]
             seen == pout.snapshot.seen[s]
         IN /\ read.errorCount = seen.errorCount
            /\ read.eventCount = seen.eventCount
            /\ read.lastFetch = seen.lastFetch

\* C38: every call that waits, for the refresh it started or for one it joined,
\* returns, and every source task that has called its adapter ends
C38_EveryCallReturns ==
  /\ \A c \in Callers : (callers[c].pc # "idle") ~> (callers[c].pc = "idle")
  /\ (\E p \in PassIds, s \in SourceNames : passes[p].tasks[s].st = "calling")
       ~> (\A p \in PassIds, s \in SourceNames : passes[p].tasks[s].st # "calling")

\* a caller has joined the refresh of another, whose sources have all failed, and
\* the refresh has settled: both are about to return
C38_Witness ==
  \E c, d \in Callers :
    /\ callers[c].pc = "awaitOwn" /\ callers[d].pc = "awaitJoin"
    /\ callers[d].pass = callers[c].pass
    /\ passes[callers[c].pass].st = "done"
    /\ \A s \in SourceNames :
         sourceStatus[s].enabled => passes[callers[c].pass].tasks[s].result = Null

\* the tracker of the key is held for a refresh whose starter has not returned
TrackerInUse ==
  \A k \in DOMAIN isRefreshing :
    isRefreshing[k] # 0 =>
      /\ passes[isRefreshing[k]].st \in {"fetching", "done"}
      /\ \E c \in Callers : callers[c].pc = "awaitOwn" /\ callers[c].pass = isRefreshing[k]

\* C39: a tracker is held only for a refresh whose starter has not yet returned; the
\* return of the starter removes it; a call that joins a refresh joins one whose
\* source tasks have not all been merged, and a call that finds no valid entry and
\* no tracker starts a pass with a new fetch for every enabled source
C39_TrackerRemoved ==
  /\ []TrackerInUse
  /\ [][\A c \in Callers :
          /\ (callers[c].pc = "awaitOwn" /\ callers'[c].pc = "idle")
             => isRefreshing'["all_events"] = 0
          /\ (callers[c].pc = "idle" /\ callers'[c].pc = "awaitJoin")
             => passes[callers'[c].pass].st = "fetching"
          /\ (callers[c].pc = "idle" /\ callers'[c].pc = "awaitOwn")
             => /\ isRefreshing["all_events"] = 0
                /\ passes[callers'[c].pass].st = "unused"
                /\ \A s \in SourceNames :
                     sourceStatus[s].enabled
                     => passes'[callers'[c].pass].tasks[s].st = "calling"]_vars

\* after a refresh has returned and filled the cache, a forced call has started a new
\* pass while the entry is still fresh
C39_Witness ==
  /\ cache["all_events"].present
  /\ now - cache["all_events"].timestamp < cacheTTL
  /\ \E c \in Callers :
       /\ callers[c].pc = "awaitOwn" /\ callers[c].forceRefresh
       /\ isRefreshing["all_events"] = callers[c].pass
       /\ passes[callers[c].pass].st = "fetching"

====
